---- MODULE Spec2Model ----
(***************************************************************************)
(* A model of pkg/installer/repository.go: the repository descriptor, the  *)
(* registry (docker) generator, the Sync engine and the multi-repository   *)
(* aggregator (type Repositories).                                         *)
(***************************************************************************)
EXTENDS Integers, Sequences, FiniteSets, TLC

VARIABLES
    \* ---- aggregator (type Repositories) ----
    repos,      \* the Repositories slice: a sequence of repository records
    aggReq,     \* the pkg.Packages list the caller passes to the lookups
    aggOp,      \* the last aggregator method called ("none" before any call)
    aggRes,     \* the value the last call returned
    \* ---- Sync engine ----
    local,      \* the caller's descriptor r (the receiver of Sync)
    remote,     \* what the mirror serves: spec document, tree and metadata bundles
    cacheDir,   \* <cache-root>/<repo-name>: spec document, treefs, metafs
    sync,       \* per Sync call in flight: its position and its local variables
    \* ---- registry generator ----
    desc,       \* the descriptor r that Generate publishes
    registry,   \* the images tagged <prefix>:<file> in the registry
    now,        \* time.Now().Unix()
    gen,        \* the Generate call in flight: its position and local variables
    hist,       \* the calls made so far (history, for the claims)
    \* ---- registry generator, Initialize ----
    images,     \* the package images <prefix>:<ImageID> in the registry
    ini,        \* the initialize call: configuration, position, local variables
    \* ---- searches of one repository ----
    index,      \* r.Index: the artifacts, each with its package and its files
    treeDb,     \* the packages of r.GetTree().GetDatabase()
    search,     \* the search called, its argument and what it returned
    \* ---- spec document ----
    rt          \* a descriptor, the document written from it, the descriptor read back

aggVars == <<repos, aggReq, aggOp, aggRes>>
syncVars == <<local, remote, cacheDir, sync>>
genVars == <<desc, registry, now, gen, hist>>
iniVars == <<images, ini>>
searchVars == <<index, treeDb, search>>
rtVars == <<rt>>

vars == <<repos, aggReq, aggOp, aggRes, local, remote, cacheDir, sync,
          desc, registry, now, gen, hist, images, ini, index, treeDb, search, rt>>

\* what the actions of one component leave alone
notAgg == <<syncVars, genVars, iniVars, searchVars, rtVars>>
notSync == <<aggVars, genVars, iniVars, searchVars, rtVars>>
notGen == <<aggVars, syncVars, iniVars, searchVars, rtVars>>
notIni == <<aggVars, syncVars, genVars, searchVars, rtVars>>
notSearch == <<aggVars, syncVars, genVars, iniVars, rtVars>>
notRt == <<aggVars, syncVars, genVars, iniVars, searchVars>>

(***************************************************************************)
(* Bounds of the model.                                                    *)
(***************************************************************************)
MaxRepos == 3      \* repositories in a Repositories collection
MaxReq == 2        \* packages in one request list
MaxRev == 2        \* revisions a published spec document carries: 1..MaxRev
MaxTime == 2       \* publish times (unix seconds): 1..MaxTime
MaxCalls == 3      \* Generate calls in one run of the generator
MaxFiles == 2      \* package metadata files under the path Initialize walks
MaxUrls == 2       \* mirror urls of a descriptor
MaxArtifacts == 2  \* artifacts in the index of a repository

(***************************************************************************)
(* Packages.  A package is identified by its fingerprint; "def" names the  *)
(* repository whose tree holds this definition (0: built by the caller).   *)
(***************************************************************************)
FingerPrints == {"foo-1.0", "bar-2.0"}
Selectors == {"bar>=1.0"}
Priorities == {1, 10}
NoPkg == [fp |-> "none", def |-> 0]

Pkg(f, d) == [fp |-> f, def |-> d]

\* pkg.Package.IsSelector
IsSelector(p) == p.fp \in Selectors

\* the fingerprints a selector accepts
Accepts(s) == IF s = "bar>=1.0" THEN {"bar-2.0"} ELSE {}

\* pkg.PackageDatabase.FindPackage: the repository's own definition of the
\* requested package, NoPkg standing for the error return
FindPackage(r, p) == IF p.fp \in r.db THEN Pkg(p.fp, r.id) ELSE NoPkg

\* pkg.PackageDatabase.FindPackageCandidate: the repository's definition of
\* the package the selector accepts, NoPkg standing for the error return
FindPackageCandidate(r, p) ==
    LET ok == Accepts(p.fp) \cap r.db
    IN  IF ok = {} THEN NoPkg ELSE Pkg(CHOOSE f \in ok : TRUE, r.id)

\* pkg.PackageDatabase.World of one repository's tree
DbWorld(r) == {Pkg(f, r.id) : f \in r.db}

(***************************************************************************)
(* sort.Sort(re) with Len, Swap and Less of Repositories.  For the slice   *)
(* lengths of this model sort.Sort is its insertion sort.                  *)
(***************************************************************************)
Less(r, i, j) == r[i].priority < r[j].priority

Swap(r, i, j) == [r EXCEPT ![i] = r[j], ![j] = r[i]]

RECURSIVE InsertDown(_, _)
InsertDown(r, j) ==
    IF j > 1 /\ Less(r, j, j - 1) THEN InsertDown(Swap(r, j, j - 1), j - 1) ELSE r

RECURSIVE InsertionSort(_, _)
InsertionSort(r, i) ==
    IF i > Len(r) THEN r ELSE InsertionSort(InsertDown(r, i), i + 1)

Sort(r) == InsertionSort(r, 2)

(***************************************************************************)
(* Repositories.World: the fingerprint map after the reverse walk.         *)
(***************************************************************************)
RECURSIVE WorldWalk(_, _, _)
WorldWalk(r, i, cache) ==
    IF i < 1 THEN cache
    ELSE WorldWalk(r, i - 1,
            [f \in FingerPrints |-> IF f \in r[i].db THEN Pkg(f, r[i].id) ELSE cache[f]])

World(r) ==
    LET cache == WorldWalk(r, Len(r), [f \in FingerPrints |-> NoPkg])
    IN  {cache[f] : f \in {g \in FingerPrints : cache[g] # NoPkg}}

(***************************************************************************)
(* Repositories.SyncDatabase: the CreatePackage calls made on the target,  *)
(* in call order.  The packages of one tree are visited in a fixed order.  *)
(***************************************************************************)
FpOrder == <<"bar-2.0", "foo-1.0">>

SetToSeq(S) == [i \in 1..Cardinality(S) |->
    CHOOSE x \in S : Cardinality({y \in S : \E j, k \in 1..Len(FpOrder) :
                          FpOrder[j] = y.fp /\ FpOrder[k] = x.fp /\ j < k}) = i - 1]

RECURSIVE SyncDbRepoEveryDefinition(_, _, _)
SyncDbRepoEveryDefinition(ps, cache, calls) ==
    IF ps = <<>> THEN [cache |-> cache, calls |-> calls]
    ELSE SyncDbRepoEveryDefinition(Tail(ps), cache \cup {Head(ps).fp}, Append(calls, Head(ps)))

RECURSIVE SyncDbRepo(_, _, _)
SyncDbRepo(ps, cache, calls) ==
    IF ps = <<>> THEN [cache |-> cache, calls |-> calls]
    ELSE IF Head(ps).fp \notin cache
         THEN SyncDbRepo(Tail(ps), cache \cup {Head(ps).fp}, Append(calls, Head(ps)))
         ELSE SyncDbRepo(Tail(ps), cache, calls)

RECURSIVE SyncDbWalk(_, _, _, _)
SyncDbWalk(r, i, cache, calls) ==
    IF i < 1 THEN calls
    ELSE LET s == SyncDbRepo(SetToSeq(DbWorld(r[i])), cache, calls)
         IN  SyncDbWalk(r, i - 1, s.cache, s.calls)

SyncDatabase(r) == SyncDbWalk(r, Len(r), {}, <<>>)

(***************************************************************************)
(* Repositories.PackageMatches, on the slice as sort.Sort left it.         *)
(***************************************************************************)
RECURSIVE MatchRepos(_, _, _)
\* the inner loop over re from index i: the first match, or <<>>
MatchRepos(re, i, pack) ==
    IF i > Len(re) THEN <<>>
    ELSE IF FindPackage(re[i], pack) # NoPkg
         THEN <<[Package |-> FindPackage(re[i], pack), Repo |-> re[i].id]>>
         ELSE MatchRepos(re, i + 1, pack)

RECURSIVE MatchPackages(_, _)
MatchPackages(re, p) ==
    IF p = <<>> THEN <<>>
    ELSE MatchRepos(re, 1, Head(p)) \o MatchPackages(re, Tail(p))

PackageMatchesUnsorted(re, p) == MatchPackages(re, p)

PackageMatches(re, p) == MatchPackages(Sort(re), p)

(***************************************************************************)
(* Repositories.ResolveSelectors, on the slice as sort.Sort left it.       *)
(***************************************************************************)
RECURSIVE ResolveRepos(_, _, _)
\* the REPOSITORY loop from index i for one requested package
ResolveRepos(re, i, pack) ==
    IF i > Len(re) THEN <<>>
    ELSE IF IsSelector(pack)
         THEN IF FindPackageCandidate(re[i], pack) = NoPkg
              THEN ResolveRepos(re, i + 1, pack)              \* continue REPOSITORY
              ELSE <<FindPackageCandidate(re[i], pack)>>      \* continue PACKAGE
         ELSE <<pack>> \o ResolveRepos(re, i + 1, pack)       \* appended, loop goes on

RECURSIVE ResolvePackages(_, _)
ResolvePackages(re, p) ==
    IF p = <<>> THEN <<>>
    ELSE ResolveRepos(re, 1, Head(p)) \o ResolvePackages(re, Tail(p))

ResolveSelectorsUnsorted(re, p) == ResolvePackages(re, p)

ResolveSelectors(re, p) == ResolvePackages(Sort(re), p)

(***************************************************************************)
(* The aggregator as a state machine: a collection in any order, and one   *)
(* action per method.  The three methods that call sort.Sort leave the     *)
(* caller's slice sorted (the slice shares its backing array).             *)
(***************************************************************************)
RECURSIVE SeqsUpTo(_, _)
SeqsUpTo(S, n) ==
    IF n = 0 THEN {<<>>}
    ELSE LET shorter == SeqsUpTo(S, n - 1)
         IN  shorter \cup {Append(s, x) : s \in {t \in shorter : Len(t) = n - 1}, x \in S}

RepoShapes == [priority : Priorities, db : SUBSET FingerPrints]

\* a collection: repository i of the registration order has id i
Collections ==
    {[i \in 1..Len(s) |-> [id |-> i, priority |-> s[i].priority, db |-> s[i].db]] :
        s \in SeqsUpTo(RepoShapes, MaxRepos)}

\* what a caller asks for: a concrete package and a selector
RequestAtoms == {Pkg("bar-2.0", 0), Pkg("bar>=1.0", 0)}

Requests == SeqsUpTo(RequestAtoms, MaxReq)

CallWorld ==
    /\ aggOp' = "World"
    /\ aggRes' = World(repos)
    /\ UNCHANGED <<repos, aggReq, notAgg>>

CallSyncDatabase ==
    /\ aggOp' = "SyncDatabase"
    /\ aggRes' = SyncDatabase(repos)
    /\ UNCHANGED <<repos, aggReq, notAgg>>

CallPackageMatches ==
    /\ aggOp' = "PackageMatches"
    /\ aggRes' = PackageMatches(repos, aggReq)
    /\ repos' = Sort(repos)
    /\ UNCHANGED <<aggReq, notAgg>>

CallResolveSelectors ==
    /\ aggOp' = "ResolveSelectors"
    /\ aggRes' = ResolveSelectors(repos, aggReq)
    /\ repos' = Sort(repos)
    /\ UNCHANGED <<aggReq, notAgg>>

AggNext ==
    \/ CallWorld
    \/ CallSyncDatabase
    \/ CallPackageMatches
    \/ CallResolveSelectors

(***************************************************************************)
(* Documents, bundles and directories.                                     *)
(***************************************************************************)
REPOFILE_TREE_KEY == "tree"
REPOFILE_META_KEY == "meta"
REPOSITORY_SPECFILE == "repository.yaml"
REPOSITORY_METAFILE == "repository.meta.yaml"
TREE_TARBALL == "tree.tar"

Generations == {"g1", "g2"}   \* distinct contents a publisher archives

\* strconv.FormatInt(n, 10) for n >= 0
Digits == <<"0", "1", "2", "3", "4", "5", "6", "7", "8", "9">>

RECURSIVE FormatInt(_)
FormatInt(n) ==
    IF n < 10 THEN Digits[n + 1] ELSE FormatInt(n \div 10) \o Digits[(n % 10) + 1]

\* a bundle as served or downloaded, and a directory of the cache
Bundle(k, g) == [kind |-> k, gen |-> g]
Corrupt(b) == [kind |-> b.kind, gen |-> "corrupt"]
NoFile == [kind |-> "none", gen |-> "none"]
Absent == [kind |-> "absent", gen |-> "none"]
Partial(b) == [kind |-> "partial", gen |-> b.gen]
EmptyDir == [kind |-> "empty", gen |-> "none"]

\* compiler.Artifact.Hash: the checksum set of a file
Hash(b) == <<"sha256", b.kind, b.gen>>

VerifyAlways(b, checksums) == TRUE

\* compiler.Artifact.Verify against the checksums set on the artifact
Verify(b, checksums) == Hash(b) = checksums

\* LuetRepositoryFile
RepositoryFile(name, b) == [filename |-> name, checksums |-> Hash(b)]

\* the fields of a spec document a mirror may advertise differently from
\* the caller's configuration
Adverts ==
    { [name |-> "system", urls |-> <<"https://mirror.local">>, priority |-> 1,
       type |-> "http", verify |-> TRUE],
      [name |-> "upstream", urls |-> <<"https://mirror.remote">>, priority |-> 10,
       type |-> "disk", verify |-> FALSE] }

ManifestKeys == {REPOFILE_TREE_KEY, REPOFILE_META_KEY}

\* LuetSystemRepositorySerialized: a spec document declaring the keys ks
SpecDoc(a, rev, ts, g, ks) ==
    [kind |-> "spec", name |-> a.name, urls |-> a.urls, priority |-> a.priority,
     type |-> a.type, verify |-> a.verify, revision |-> rev, last_update |-> FormatInt(ts),
     repo_files |-> [k \in ks |->
        IF k = REPOFILE_TREE_KEY THEN RepositoryFile(TREE_TARBALL \o ".gz", Bundle("tree", g))
        ELSE RepositoryFile(REPOSITORY_METAFILE \o ".tar", Bundle("meta", g))]]

NoDoc == [kind |-> "none"]
Garbage == [kind |-> "garbage"]

\* the states of a mirror: a complete publish, or a spec document that
\* lacks a mandatory key
Published(a) ==
    { [spec |-> SpecDoc(a, rev, ts, g, ManifestKeys),
       tree |-> Bundle("tree", g), meta |-> Bundle("meta", g)] :
        rev \in 1..MaxRev, ts \in 1..MaxTime, g \in Generations }

Malformed(a) ==
    { [spec |-> SpecDoc(a, 1, 1, "g1", ks),
       tree |-> Bundle("tree", "g1"), meta |-> Bundle("meta", "g1")] :
        ks \in (SUBSET ManifestKeys) \ {ManifestKeys} }

RemoteStates(a) == Published(a) \cup Malformed(a)

AdvertOf(doc) == [name |-> doc.name, urls |-> doc.urls, priority |-> doc.priority,
                  type |-> doc.type, verify |-> doc.verify]

(***************************************************************************)
(* The descriptor.                                                         *)
(***************************************************************************)
DiskRepositoryType == "disk"
HttpRepositoryType == "http"
DockerRepositoryType == "docker"

NoRepo == [kind |-> "nil"]

NewLuetSystemRepositoryFromYamlRevisionOverOne(doc) ==
    IF doc.kind # "spec" THEN NoRepo
    ELSE [kind |-> "repo", name |-> doc.name, urls |-> doc.urls,
          priority |-> doc.priority, type |-> doc.type, verify |-> doc.verify,
          authentication |-> "none",
          revision |-> IF doc.revision > 1 THEN doc.revision ELSE 0,
          last_update |-> IF doc.last_update # "" THEN doc.last_update ELSE "",
          repo_files |-> doc.repo_files,
          index |-> NoFile, tree |-> NoFile]

\* NewLuetSystemRepositoryFromYaml: nil on a document yaml cannot parse
NewLuetSystemRepositoryFromYaml(doc) ==
    IF doc.kind # "spec" THEN NoRepo
    ELSE [kind |-> "repo", name |-> doc.name, urls |-> doc.urls,
          priority |-> doc.priority, type |-> doc.type, verify |-> doc.verify,
          authentication |-> "none",
          revision |-> IF doc.revision > 0 THEN doc.revision ELSE 0,
          last_update |-> IF doc.last_update # "" THEN doc.last_update ELSE "",
          repo_files |-> doc.repo_files,
          index |-> NoFile, tree |-> NoFile]

\* GetRepositoryFile: whether the manifest holds the key
HasRepositoryFile(repo, key) == key \in DOMAIN repo.repo_files

ReadSpecFileTreeKeyOnly(doc) ==
    LET repo == NewLuetSystemRepositoryFromYaml(doc)
    IN  IF doc.kind = "none" THEN NoRepo
        ELSE IF repo = NoRepo THEN NoRepo
        ELSE IF ~HasRepositoryFile(repo, REPOFILE_TREE_KEY) THEN NoRepo
        ELSE repo

\* ReadSpecFile: the descriptor, or nil with an error
ReadSpecFile(doc) ==
    LET repo == NewLuetSystemRepositoryFromYaml(doc)
    IN  IF doc.kind = "none" THEN NoRepo
        ELSE IF repo = NoRepo THEN NoRepo
        ELSE IF ~HasRepositoryFile(repo, REPOFILE_TREE_KEY) THEN NoRepo
        ELSE IF ~HasRepositoryFile(repo, REPOFILE_META_KEY) THEN NoRepo
        ELSE repo

\* Client(): the transport chosen by the type, "nil" for an unknown type
Client(r) ==
    IF r.type \in {DiskRepositoryType, HttpRepositoryType, DockerRepositoryType}
    THEN r.type ELSE "nil"

UpToDateRevisionOnly(localRepo, repo) == localRepo.revision = repo.revision

\* the comparison that marks the repository as already up to date
UpToDate(localRepo, repo) ==
    /\ localRepo.revision = repo.revision
    /\ localRepo.last_update = repo.last_update

\* repoUpdated as Sync computes it from the cached spec document
RepoUpdated(r, force, cachedSpec, repo) ==
    /\ r.cached
    /\ ~force
    /\ ReadSpecFile(cachedSpec) # NoRepo
    /\ UpToDate(ReadSpecFile(cachedSpec), repo)

CopyLocalKeepPriority(repo, r) ==
    [repo EXCEPT !.urls = r.urls, !.authentication = r.authentication,
                 !.type = r.type, !.name = r.name, !.verify = r.verify]

\* the locally available data copied over the synced descriptor
CopyLocal(repo, r) ==
    [repo EXCEPT !.urls = r.urls, !.authentication = r.authentication,
                 !.type = r.type, !.priority = r.priority, !.name = r.name,
                 !.verify = r.verify]

(***************************************************************************)
(* Sync, one action per blocking step.  sync[p] holds the call's position  *)
(* and local variables; cache0 is the cache as the call found it.          *)
(***************************************************************************)
Procs == {1, 2}

EmptyCache == [spec |-> NoDoc, treefs |-> Absent, metafs |-> Absent]

SyncIdle ==
    [pc |-> "idle", force |-> FALSE, file |-> NoDoc, repo |-> NoRepo,
     repoUpdated |-> FALSE, downloadedTreeFile |-> NoFile, downloadedMeta |-> NoFile,
     treefs |-> Absent, metafs |-> Absent, err |-> "", result |-> NoRepo,
     log |-> <<>>, cache0 |-> EmptyCache]

\* return with an error: no descriptor
Fail(s, e) == [s EXCEPT !.pc = "done", !.err = e, !.result = NoRepo]

Logged(s, e) == [s EXCEPT !.log = Append(s.log, e)]

\* the tree and metadata directories the call works on
TreeFs(p) == IF local.cached THEN cacheDir.treefs ELSE sync[p].treefs
MetaFs(p) == IF local.cached THEN cacheDir.metafs ELSE sync[p].metafs

\* Sync(force): entry, and the transport client
SyncCall(p) ==
    /\ sync[p].pc = "idle"
    /\ \E force \in BOOLEAN :
        LET s == [SyncIdle EXCEPT !.force = force, !.cache0 = cacheDir]
        IN  sync' = [sync EXCEPT ![p] =
                IF Client(local) = "nil"
                THEN Fail(s, "no client could be generated from repository")
                ELSE [s EXCEPT !.pc = "downloadSpec"]]
    /\ UNCHANGED <<local, remote, cacheDir, notSync>>

\* c.DownloadFile(REPOSITORY_SPECFILE)
DownloadSpec(p) ==
    /\ sync[p].pc = "downloadSpec"
    /\ \E ok \in BOOLEAN :
        LET s == Logged(sync[p], "download " \o REPOSITORY_SPECFILE)
        IN  sync' = [sync EXCEPT ![p] =
                IF ok THEN [s EXCEPT !.pc = "readSpec", !.file = remote.spec]
                ELSE Fail(s, "While downloading " \o REPOSITORY_SPECFILE)]
    /\ UNCHANGED <<local, remote, cacheDir, notSync>>

\* r.ReadSpecFile(file): the candidate descriptor, mandatory keys checked
ReadSpec(p) ==
    /\ sync[p].pc = "readSpec"
    /\ LET s == Logged(sync[p], "validate " \o REPOSITORY_SPECFILE)
           repo == ReadSpecFile(s.file)
       IN  sync' = [sync EXCEPT ![p] =
                IF repo = NoRepo THEN Fail(s, "Invalid repository")
                ELSE [s EXCEPT !.pc = "checkCached", !.repo = repo]]
    /\ UNCHANGED <<local, remote, cacheDir, notSync>>

\* the staleness check, and the directories to unpack into (temporary
\* directories, made empty by TempDir, whose creation may fail, when the
\* repository is not cached)
CheckCached(p) ==
    /\ sync[p].pc = "checkCached"
    /\ LET s == IF local.cached THEN sync[p]
                ELSE [sync[p] EXCEPT !.treefs = EmptyDir, !.metafs = EmptyDir]
           updated == RepoUpdated(local, s.force, cacheDir.spec, s.repo)
       IN  \E tempDirOk \in BOOLEAN :
            /\ local.cached => tempDirOk
            /\ sync' = [sync EXCEPT ![p] =
                 IF ~tempDirOk THEN Fail(sync[p], "Error met while creating tempdir")
                 ELSE IF updated
                 THEN [Logged(s, "already up to date") EXCEPT
                          !.repoUpdated = TRUE, !.pc = "loadMeta"]
                 ELSE [s EXCEPT !.pc = "downloadTree"]]
    /\ UNCHANGED <<local, remote, cacheDir, notSync>>

\* what DownloadFile may hand back for a bundle the mirror serves
Downloads(b) == {b, Corrupt(b)}

\* c.DownloadFile(treeFile.GetFileName())
DownloadTree(p) ==
    /\ sync[p].pc = "downloadTree"
    /\ LET s == Logged(sync[p], "download tree")
       IN  \/ sync' = [sync EXCEPT ![p] = Fail(s, "While downloading tree")]
           \/ \E f \in Downloads(remote.tree) :
                sync' = [sync EXCEPT ![p] =
                    [s EXCEPT !.pc = "verifyTree", !.downloadedTreeFile = f]]
    /\ UNCHANGED <<local, remote, cacheDir, notSync>>

\* treeFileArtifact.Verify()
VerifyTree(p) ==
    /\ sync[p].pc = "verifyTree"
    /\ LET s == Logged(sync[p], "verify tree")
           treeFile == s.repo.repo_files[REPOFILE_TREE_KEY]
       IN  sync' = [sync EXCEPT ![p] =
                IF Verify(s.downloadedTreeFile, treeFile.checksums)
                THEN [s EXCEPT !.pc = "downloadMeta"]
                ELSE Fail(s, "Tree integrity check failure")]
    /\ UNCHANGED <<local, remote, cacheDir, notSync>>

DownloadMetaUnverified(p) ==
    /\ sync[p].pc = "downloadMeta"
    /\ LET s == Logged(sync[p], "download meta")
       IN  \/ sync' = [sync EXCEPT ![p] = Fail(s, "While downloading meta")]
           \/ \E f \in Downloads(remote.meta) :
                sync' = [sync EXCEPT ![p] =
                    [s EXCEPT !.pc = IF local.cached THEN "copySpec" ELSE "unpackTree",
                              !.downloadedMeta = f]]
    /\ UNCHANGED <<local, remote, cacheDir, notSync>>

\* c.DownloadFile(metaFile.GetFileName())
DownloadMeta(p) ==
    /\ sync[p].pc = "downloadMeta"
    /\ LET s == Logged(sync[p], "download meta")
       IN  \/ sync' = [sync EXCEPT ![p] = Fail(s, "While downloading meta")]
           \/ \E f \in Downloads(remote.meta) :
                sync' = [sync EXCEPT ![p] =
                    [s EXCEPT !.pc = "verifyMeta", !.downloadedMeta = f]]
    /\ UNCHANGED <<local, remote, cacheDir, notSync>>

\* metaFileArtifact.Verify()
VerifyMeta(p) ==
    /\ sync[p].pc = "verifyMeta"
    /\ LET s == Logged(sync[p], "verify meta")
           metaFile == s.repo.repo_files[REPOFILE_META_KEY]
       IN  sync' = [sync EXCEPT ![p] =
                IF Verify(s.downloadedMeta, metaFile.checksums)
                THEN [s EXCEPT !.pc = IF local.cached THEN "copySpec" ELSE "unpackTree"]
                ELSE Fail(s, "Metadata integrity check failure")]
    /\ UNCHANGED <<local, remote, cacheDir, notSync>>

\* helpers.CopyFile(file, <repobasedir>/repository.yaml); a failed copy
\* leaves the old document or a truncated one
CopySpec(p) ==
    /\ sync[p].pc = "copySpec"
    /\ LET s == Logged(sync[p], "copy " \o REPOSITORY_SPECFILE)
       IN  \/ /\ sync' = [sync EXCEPT ![p] = [s EXCEPT !.pc = "removeTree"]]
              /\ cacheDir' = [cacheDir EXCEPT !.spec = s.file]
           \/ /\ sync' = [sync EXCEPT ![p] = Fail(s, "Error on update " \o REPOSITORY_SPECFILE)]
              /\ cacheDir' \in {cacheDir, [cacheDir EXCEPT !.spec = Garbage]}
    /\ UNCHANGED <<local, remote, notSync>>

\* os.RemoveAll(treefs)
RemoveTree(p) ==
    /\ sync[p].pc = "removeTree"
    /\ sync' = [sync EXCEPT ![p] = [Logged(sync[p], "remove treefs") EXCEPT !.pc = "removeMeta"]]
    /\ cacheDir' = [cacheDir EXCEPT !.treefs = Absent]
    /\ UNCHANGED <<local, remote, notSync>>

\* os.RemoveAll(metafs)
RemoveMeta(p) ==
    /\ sync[p].pc = "removeMeta"
    /\ sync' = [sync EXCEPT ![p] = [Logged(sync[p], "remove metafs") EXCEPT !.pc = "unpackTree"]]
    /\ cacheDir' = [cacheDir EXCEPT !.metafs = Absent]
    /\ UNCHANGED <<local, remote, notSync>>

\* treeFileArtifact.Unpack(treefs, true); a failed unpack leaves a partial
\* directory
UnpackTree(p) ==
    /\ sync[p].pc = "unpackTree"
    /\ LET s == Logged(sync[p], "unpack tree")
       IN  \E ok \in BOOLEAN :
            LET dir == IF ok THEN s.downloadedTreeFile ELSE Partial(s.downloadedTreeFile)
                t == IF ok THEN [s EXCEPT !.pc = "mkdirMeta"]
                     ELSE Fail(s, "Error met while unpacking tree")
            IN  IF local.cached
                THEN /\ cacheDir' = [cacheDir EXCEPT !.treefs = dir]
                     /\ sync' = [sync EXCEPT ![p] = t]
                ELSE /\ cacheDir' = cacheDir
                     /\ sync' = [sync EXCEPT ![p] = [t EXCEPT !.treefs = dir]]
    /\ UNCHANGED <<local, remote, notSync>>

\* os.MkdirAll(metafs, os.ModePerm), its result dropped: the directory is
\* made when it is missing, and is still missing when the call failed
MkdirMeta(p) ==
    /\ sync[p].pc = "mkdirMeta"
    /\ LET s == [Logged(sync[p], "mkdir metafs") EXCEPT !.pc = "unpackMeta"]
       IN  \E ok \in BOOLEAN :
            LET dir == IF ok /\ MetaFs(p) = Absent THEN EmptyDir ELSE MetaFs(p)
            IN  IF local.cached
                THEN /\ cacheDir' = [cacheDir EXCEPT !.metafs = dir]
                     /\ sync' = [sync EXCEPT ![p] = s]
                ELSE /\ cacheDir' = cacheDir
                     /\ sync' = [sync EXCEPT ![p] = [s EXCEPT !.metafs = dir]]
    /\ UNCHANGED <<local, remote, notSync>>

\* metaFileArtifact.Unpack(metafs, true).  A failed unpack leaves a partial
\* directory.  Into a missing directory (MkdirAll failed, or another call
\* removed it since) the one-file archive is not unpacked, tar not creating
\* the destination (comment at lines 749-750): Unpack fails, or returns nil
\* and leaves no directory
UnpackMeta(p) ==
    /\ sync[p].pc = "unpackMeta"
    /\ LET s == Logged(sync[p], "unpack meta")
       IN  \E ok \in BOOLEAN :
            LET dir == IF MetaFs(p) = Absent THEN Absent
                       ELSE IF ok THEN s.downloadedMeta ELSE Partial(s.downloadedMeta)
                t == IF ok THEN [s EXCEPT !.pc = "loadMeta"]
                     ELSE Fail(s, "Error met while unpacking metadata")
            IN  IF local.cached
                THEN /\ cacheDir' = [cacheDir EXCEPT !.metafs = dir]
                     /\ sync' = [sync EXCEPT ![p] = t]
                ELSE /\ cacheDir' = cacheDir
                     /\ sync' = [sync EXCEPT ![p] = [t EXCEPT !.metafs = dir]]
    /\ UNCHANGED <<local, remote, notSync>>

\* what reading a directory yields: its content, or nothing when the
\* directory is absent; a partial directory may yield either
Readable(dir) ==
    IF dir.kind \in {"absent", "empty"} THEN {NoFile}
    ELSE IF dir.kind = "partial" THEN {NoFile, dir}
    ELSE {dir}

\* NewLuetSystemRepositoryMetadata(<metafs>/repository.meta.yaml) and SetIndex
LoadMeta(p) ==
    /\ sync[p].pc = "loadMeta"
    /\ LET s == Logged(sync[p], "load meta")
       IN  \E m \in Readable(MetaFs(p)) :
            sync' = [sync EXCEPT ![p] =
                IF m = NoFile THEN Fail(s, "While processing " \o REPOSITORY_METAFILE)
                ELSE [s EXCEPT !.pc = "loadTree", !.repo = [s.repo EXCEPT !.index = m]]]
    /\ UNCHANGED <<local, remote, cacheDir, notSync>>

\* reciper.Load(treefs), SetTree, the local fields copied over, return
LoadTree(p) ==
    /\ sync[p].pc = "loadTree"
    /\ LET s == Logged(sync[p], "load tree")
       IN  \E t \in Readable(TreeFs(p)) :
            sync' = [sync EXCEPT ![p] =
                IF t = NoFile THEN Fail(s, "Error met while unpacking rootfs")
                ELSE [s EXCEPT !.pc = "done",
                               !.result = CopyLocal([s.repo EXCEPT !.tree = t], local)]]
    /\ UNCHANGED <<local, remote, cacheDir, notSync>>

\* the caller takes the result
SyncReturn(p) ==
    /\ sync[p].pc = "done"
    /\ sync' = [sync EXCEPT ![p] = SyncIdle]
    /\ UNCHANGED <<local, remote, cacheDir, notSync>>

\* the mirror is republished between two Sync calls
RemotePublish ==
    /\ \A p \in Procs : sync[p].pc = "idle"
    /\ remote' \in RemoteStates(AdvertOf(remote.spec)) \ {remote}
    /\ UNCHANGED <<local, cacheDir, sync, notSync>>

SyncStep(p) ==
    \/ SyncCall(p)
    \/ DownloadSpec(p)
    \/ ReadSpec(p)
    \/ CheckCached(p)
    \/ DownloadTree(p)
    \/ VerifyTree(p)
    \/ DownloadMeta(p)
    \/ VerifyMeta(p)
    \/ CopySpec(p)
    \/ RemoveTree(p)
    \/ RemoveMeta(p)
    \/ UnpackTree(p)
    \/ MkdirMeta(p)
    \/ UnpackMeta(p)
    \/ LoadMeta(p)
    \/ LoadTree(p)
    \/ SyncReturn(p)

\* the caller's configurations: a cached http repository, a docker
\* repository synced into temporary directories, an unknown type
LocalDescriptors ==
    { [name |-> "system", urls |-> <<"https://mirror.local">>,
       authentication |-> "credentials", type |-> c[1], priority |-> 1,
       verify |-> TRUE, cached |-> c[2]] :
        c \in {<<HttpRepositoryType, TRUE>>, <<DockerRepositoryType, FALSE>>,
               <<"rsync", TRUE>>} }

SyncNext == SyncStep(1) \/ RemotePublish

\* the mirror publishes its next revision while Sync calls are in flight
RemoteRepublish ==
    /\ \E p \in Procs : sync[p].pc # "idle"
    /\ remote.spec.revision < MaxRev
    /\ remote' \in {r \in Published(AdvertOf(remote.spec)) :
                        /\ r.spec.revision = remote.spec.revision + 1
                        /\ r.spec.last_update = remote.spec.last_update
                        /\ r.tree.gen # remote.tree.gen}
    /\ UNCHANGED <<local, cacheDir, sync, notSync>>

\* the errors a Sync call returns when every download, copy and unpack of
\* its own succeeds: those of loading a directory another call removed,
\* that of unpacking the metadata into a directory another call removed,
\* and those of verifying an intact bundle of a mirror republished after
\* the spec document was downloaded
InterferenceErrors ==
    {"", "While processing " \o REPOSITORY_METAFILE, "Error met while unpacking rootfs",
     "Error met while unpacking metadata",
     "Tree integrity check failure", "Metadata integrity check failure"}

\* a step of a call whose transport and file system do not fail: MkdirAll
\* makes the directory, and Unpack fails only on a directory that is gone
Undisturbed(p) ==
    /\ sync'[p].err \in InterferenceErrors
    /\ sync'[p].downloadedTreeFile # Corrupt(sync'[p].downloadedTreeFile)
    /\ sync'[p].downloadedMeta # Corrupt(sync'[p].downloadedMeta)
    /\ sync[p].pc = "mkdirMeta" =>
          (IF local.cached THEN cacheDir'.metafs ELSE sync'[p].metafs) # Absent
    /\ sync'[p].err = "Error met while unpacking metadata" => MetaFs(p) = Absent

ParStep(p) == SyncStep(p) /\ Undisturbed(p)

\* two callers of Sync on the same descriptor, hence the same cache
\* directory, in an environment that does not fail
SyncParNext == ParStep(1) \/ ParStep(2) \/ RemoteRepublish

(***************************************************************************)
(* The registry generator (dockerRepositoryGenerator).                     *)
(***************************************************************************)
REPOFILE_COMPILER_TREE_KEY == "compilertree"
COMPILERTREE_TARBALL == "compilertree.tar"

NoImage == [kind |-> "none", gen |-> "none"]
NoChecksums == <<"none">>

\* compiler.GZip, compiler.None
GZip == "gzip"
None == "none"
NoManifest == [k \in {} |-> NoFile]

\* NewDefaultTreeRepositoryFile, NewDefaultCompilerTreeRepositoryFile,
\* NewDefaultMetaRepositoryFile
DefaultRepositoryFile(key) ==
    [filename |-> IF key = REPOFILE_TREE_KEY THEN TREE_TARBALL
                  ELSE IF key = REPOFILE_COMPILER_TREE_KEY THEN COMPILERTREE_TARBALL
                  ELSE REPOSITORY_METAFILE \o ".tar",
     compression |-> IF key = REPOFILE_META_KEY THEN None ELSE GZip,
     checksums |-> NoChecksums]

\* path.Base(a.GetPath()) once a.Compress has returned nil on the artifact
\* created from the entry f: GZip appends its suffix, None leaves the name
CompressedName(f) ==
    IF f.compression = GZip THEN f.filename \o ".gz" ELSE f.filename

\* SetRepositoryFile
SetRepositoryFile(files, key, f) ==
    [k \in (DOMAIN files) \cup {key} |-> IF k = key THEN f ELSE files[k]]

\* AddRepositoryFile up to the failure of Compress or Hash: the entry of the
\* key, and defaults registered when the manifest had none
WithDefault(files, key, defaults) ==
    IF key \in DOMAIN files THEN files ELSE SetRepositoryFile(files, key, defaults)

\* AddRepositoryFile, completed: the entry of the key with the name
\* compression gave its file and the checksums of the archive
WithArchive(files, key, defaults, b) ==
    LET treeFile == WithDefault(files, key, defaults)[key]
    IN  SetRepositoryFile(files, key, [treeFile EXCEPT !.filename = CompressedName(treeFile),
                                                        !.checksums = Hash(b)])

\* the archive made for a key from the descriptor's current trees and index
Archive(r, key) == Bundle(key, r.content)

\* Serialize: the spec document of a descriptor
Serialize(r) ==
    [kind |-> "spec", name |-> r.name, urls |-> r.urls, priority |-> r.priority,
     type |-> r.type, verify |-> r.verify, revision |-> r.revision,
     last_update |-> r.last_update, repo_files |-> r.repo_files]

BumpRevisionInMemory(r, repospec, resetRevision) ==
    [err |-> "", revision |-> (IF resetRevision THEN 0 ELSE r.revision) + 1]

BumpRevisionIgnoringReset(r, repospec, resetRevision) ==
    IF repospec.kind # "none"
    THEN IF ReadSpecFile(repospec) = NoRepo
         THEN [err |-> "Invalid repository", revision |-> r.revision]
         ELSE [err |-> "", revision |-> ReadSpecFile(repospec).revision + 1]
    ELSE [err |-> "", revision |-> r.revision + 1]

BumpRevisionBeforeReading(r, repospec, resetRevision) ==
    IF resetRevision THEN [err |-> "", revision |-> 0 + 1]
    ELSE IF repospec.kind # "none"
         THEN IF ReadSpecFile(repospec) = NoRepo
              THEN [err |-> "Invalid repository", revision |-> r.revision + 1]
              ELSE [err |-> "", revision |-> ReadSpecFile(repospec).revision + 1]
         ELSE [err |-> "", revision |-> r.revision + 1]

\* BumpRevision: the error, and r.Revision as the call leaves it
BumpRevision(r, repospec, resetRevision) ==
    IF resetRevision THEN [err |-> "", revision |-> 0 + 1]
    ELSE IF repospec.kind # "none"
         THEN IF ReadSpecFile(repospec) = NoRepo
              THEN [err |-> "Invalid repository", revision |-> r.revision]
              ELSE [err |-> "", revision |-> ReadSpecFile(repospec).revision + 1]
         ELSE [err |-> "", revision |-> r.revision + 1]

ImageNeverAvailable(tag) == FALSE

\* b.ImageAvailable(<prefix>:<file>)
ImageAvailable(tag) == tag \in DOMAIN registry /\ registry[tag] # NoImage

\* the registry once an image is pushed under a tag
Tagged(reg, tag, image) ==
    [t \in (DOMAIN reg) \cup {tag} |-> IF t = tag THEN image ELSE reg[t]]

PushAlways(available, force) == FALSE

\* pushImage: whether b.Push is left out
PushSkipped(available, force) == available /\ ~force

\* a backend call on an image, with what ImageAvailable said of the tag when
\* the call was made
BackendCall(op, id, available) == [op |-> op, id |-> id, available |-> available]

\* the tags of a first publish: the spec document and the files its
\* manifest names
Tags ==
    {REPOSITORY_SPECFILE} \cup
    {CompressedName(DefaultRepositoryFile(k)) :
        k \in {REPOFILE_TREE_KEY, REPOFILE_COMPILER_TREE_KEY, REPOFILE_META_KEY}}

GenIdle ==
    [pc |-> "idle", resetRevision |-> FALSE, repospec |-> NoDoc, a |-> NoFile,
     err |-> "", events |-> <<>>, calls |-> <<>>, revision0 |-> 0,
     published0 |-> NoImage]

GenFail(g, e) == [g EXCEPT !.pc = "done", !.err = e]

getGeneratorDefaultsToDocker(r) ==
    IF r.type \in {DiskRepositoryType, HttpRepositoryType} THEN "localRepositoryGenerator"
    ELSE "dockerRepositoryGenerator"

\* getGenerator: the generator chosen by the type, "nil" with an error for
\* an unknown type
getGenerator(r) ==
    IF r.type \in {DiskRepositoryType, HttpRepositoryType} THEN "localRepositoryGenerator"
    ELSE IF r.type = DockerRepositoryType THEN "dockerRepositoryGenerator"
    ELSE "nil"

\* Write(dst, resetRevision, force) on a descriptor getGenerator has no
\* generator for: the error, and Generate is not called
WriteRejected ==
    /\ gen.pc = "idle"
    /\ hist.calls < MaxCalls
    /\ getGenerator(desc) = "nil"
    /\ \E resetRevision \in BOOLEAN :
        gen' = GenFail([GenIdle EXCEPT !.resetRevision = resetRevision,
                                       !.revision0 = desc.revision,
                                       !.published0 = registry[REPOSITORY_SPECFILE]],
                       "invalid repository type")
    /\ UNCHANGED <<desc, registry, now, hist, notGen>>

\* Write on a docker descriptor calls Generate(r, imagePrefix,
\* resetRevision): the timestamp and the temporary
\* directory
GenerateCall ==
    /\ gen.pc = "idle"
    /\ hist.calls < MaxCalls
    /\ getGenerator(desc) = "dockerRepositoryGenerator"
    /\ \E resetRevision, tempDirOk \in BOOLEAN :
        LET g == [GenIdle EXCEPT !.resetRevision = resetRevision,
                                 !.revision0 = desc.revision,
                                 !.published0 = registry[REPOSITORY_SPECFILE]]
        IN  gen' = IF tempDirOk THEN [g EXCEPT !.pc = "fetchSpec"]
                   ELSE GenFail(g, "error met while creating tempdir for repository")
    /\ desc' = [desc EXCEPT !.last_update = FormatInt(now)]
    /\ UNCHANGED <<registry, now, hist, notGen>>

\* ImageAvailable(imageRepository), DownloadImage, ExtractRootfs: the
\* published spec document lands in repoTemp
FetchSpec ==
    /\ gen.pc = "fetchSpec"
    /\ IF ImageAvailable(REPOSITORY_SPECFILE)
       THEN \E outcome \in {"ok", "download", "extract"} :
               gen' = IF outcome = "ok"
                      THEN [gen EXCEPT !.pc = "bumpRevision",
                                       !.repospec = registry[REPOSITORY_SPECFILE]]
                      ELSE IF outcome = "download"
                      THEN GenFail(gen, "while downloading " \o REPOSITORY_SPECFILE)
                      ELSE GenFail(gen, "while extracting " \o REPOSITORY_SPECFILE)
       ELSE gen' = [gen EXCEPT !.pc = "bumpRevision"]
    /\ UNCHANGED <<desc, registry, now, hist, notGen>>

\* r.BumpRevision(repospec, resetRevision), then the pre-build event
BumpAndAnnounce ==
    /\ gen.pc = "bumpRevision"
    /\ LET b == BumpRevision(desc, gen.repospec, gen.resetRevision)
       IN  /\ desc' = [desc EXCEPT !.revision = b.revision]
           /\ gen' = IF b.err # "" THEN GenFail(gen, b.err)
                     ELSE [gen EXCEPT !.pc = "addTree",
                                      !.events = Append(gen.events, "EventRepositoryPreBuild")]
    /\ UNCHANGED <<registry, now, hist, notGen>>

\* The definition of AddTree (lines 479-496) has three parameters and hands
\* NewDefaultTreeRepositoryFile() to AddRepositoryFile whatever the key; the
\* calls in Generate (lines 1187, 1198) pass the default of the key as a
\* fourth argument.  The file holds both and builds as neither: a build
\* follows the definition or the calls, and runs of both are modelled.
\* hist.build says which one runs.
Builds == {"definition", "calls"}

\* the default entry AddTree hands to AddRepositoryFile for a key under a
\* build
AddTreeDefault(build, key) ==
    IF build = "definition" THEN DefaultRepositoryFile(REPOFILE_TREE_KEY)
    ELSE DefaultRepositoryFile(key)

AddTreeContinuingOnError(key, at, next) ==
    /\ gen.pc = at
    /\ \E outcome \in {"ok", "tempdir", "save", "compress"} :
        LET defaults == AddTreeDefault(hist.build, key)
        IN  /\ desc' = [desc EXCEPT !.repo_files =
                          IF outcome = "ok"
                          THEN WithArchive(desc.repo_files, key, defaults, Archive(desc, key))
                          ELSE IF outcome = "compress"
                          THEN WithDefault(desc.repo_files, key, defaults)
                          ELSE desc.repo_files]
            /\ gen' = IF outcome \in {"ok", "compress"}
                      THEN [gen EXCEPT !.pc = next, !.a = Archive(desc, key)]
                      ELSE IF outcome = "tempdir"
                      THEN GenFail(gen, "Error met while creating tempdir for archive")
                      ELSE GenFail(gen, "Error met while saving the tree")
    /\ UNCHANGED <<registry, now, hist, notGen>>

\* r.AddTree(t, dst, key): the temporary directory, Save, then
\* AddRepositoryFile(archive, key, dst, defaults), the default entry being
\* the one of the build.
AddTree(key, at, next) ==
    /\ gen.pc = at
    /\ \E outcome \in {"ok", "tempdir", "save", "compress"} :
        LET defaults == AddTreeDefault(hist.build, key)
        IN  /\ desc' = [desc EXCEPT !.repo_files =
                          IF outcome = "ok"
                          THEN WithArchive(desc.repo_files, key, defaults, Archive(desc, key))
                          ELSE IF outcome = "compress"
                          THEN WithDefault(desc.repo_files, key, defaults)
                          ELSE desc.repo_files]
            /\ gen' = IF outcome = "ok" THEN [gen EXCEPT !.pc = next, !.a = Archive(desc, key)]
                      ELSE IF outcome = "tempdir"
                      THEN GenFail(gen, "Error met while creating tempdir for archive")
                      ELSE IF outcome = "save"
                      THEN GenFail(gen, "Error met while saving the tree")
                      ELSE GenFail(gen, "Error met while adding archive to repository")
    /\ UNCHANGED <<registry, now, hist, notGen>>

PushFileFromArtifactAnnouncingAnyway(tag, image, at, next, events) ==
    /\ gen.pc = at
    /\ LET available == ImageAvailable(tag)
           push == desc.pushImages /\ ~PushSkipped(available, TRUE)
           built == <<BackendCall("GenerateFinalImage", tag, available)>>
           pushed == IF push THEN <<BackendCall("Push", tag, available)>> ELSE <<>>
           g == [gen EXCEPT !.events = gen.events \o events]
       IN  \E outcome \in {"ok", "generate", "push"} :
            /\ outcome = "push" => push
            /\ registry' = IF outcome = "ok" /\ push
                           THEN Tagged(registry, tag, image) ELSE registry
            /\ gen' = IF outcome = "ok"
                      THEN [g EXCEPT !.pc = next, !.calls = gen.calls \o built \o pushed]
                      ELSE IF outcome = "generate"
                      THEN [GenFail(g, "Failed generating metadata tree") EXCEPT
                               !.calls = gen.calls \o built]
                      ELSE [GenFail(g, "Failed while pushing image") EXCEPT
                               !.calls = gen.calls \o built \o pushed]
    /\ UNCHANGED <<desc, now, hist, notGen>>

\* pushFileFromArtifact: GenerateFinalImage, and pushImage(backend, tag,
\* true) when r.PushImages
PushFileFromArtifact(tag, image, at, next, events) ==
    /\ gen.pc = at
    /\ LET available == ImageAvailable(tag)
           push == desc.pushImages /\ ~PushSkipped(available, TRUE)
           built == <<BackendCall("GenerateFinalImage", tag, available)>>
           pushed == IF push THEN <<BackendCall("Push", tag, available)>> ELSE <<>>
       IN  \E outcome \in {"ok", "generate", "push"} :
            /\ outcome = "push" => push
            /\ registry' = IF outcome = "ok" /\ push
                           THEN Tagged(registry, tag, image) ELSE registry
            /\ gen' = IF outcome = "ok"
                      THEN [gen EXCEPT !.pc = next, !.events = gen.events \o events,
                                       !.calls = gen.calls \o built \o pushed]
                      ELSE IF outcome = "generate"
                      THEN [GenFail(gen, "Failed generating metadata tree") EXCEPT
                               !.calls = gen.calls \o built]
                      ELSE [GenFail(gen, "Failed while pushing image") EXCEPT
                               !.calls = gen.calls \o built \o pushed]
    /\ UNCHANGED <<desc, now, hist, notGen>>

\* pushImageFromArtifact(a, r) on the artifact AddRepositoryFile returned
\* for the key: CreateArtifactForFile, then pushFileFromArtifact under the
\* tag <prefix>:<a.GetFileName()>, the file name the manifest entry holds
PushImageFromArtifact(key, at, next) ==
    \/ /\ gen.pc = at
       /\ gen' = GenFail(gen, "failed generating checksums for tree")
       /\ UNCHANGED <<desc, registry, now, hist, notGen>>
    \/ PushFileFromArtifact(desc.repo_files[key].filename, gen.a, at, next, <<>>)

AddRuntimeTree == AddTree(REPOFILE_TREE_KEY, "addTree", "pushTree")

PushRuntimeTree == PushImageFromArtifact(REPOFILE_TREE_KEY, "pushTree", "addCompilerTree")

AddCompilerTree == AddTree(REPOFILE_COMPILER_TREE_KEY, "addCompilerTree", "pushCompilerTree")

PushCompilerTree ==
    PushImageFromArtifact(REPOFILE_COMPILER_TREE_KEY, "pushCompilerTree", "addMetadata")

\* the temporary directory of Generate for the metadata file, then
\* r.AddMetadata(repospec, metaDir): the metadata archive, then the spec
\* document written to repoTemp
AddMetadata ==
    /\ gen.pc = "addMetadata"
    /\ \E outcome \in {"ok", "metadir", "tempdir", "compress", "write"} :
        LET archived == WithArchive(desc.repo_files, REPOFILE_META_KEY,
                                    DefaultRepositoryFile(REPOFILE_META_KEY),
                                    Archive(desc, REPOFILE_META_KEY))
        IN  /\ desc' = [desc EXCEPT !.repo_files =
                          IF outcome \in {"ok", "write"} THEN archived
                          ELSE IF outcome = "compress"
                          THEN WithDefault(desc.repo_files, REPOFILE_META_KEY,
                                           DefaultRepositoryFile(REPOFILE_META_KEY))
                          ELSE desc.repo_files]
            /\ gen' = IF outcome = "ok"
                      THEN [gen EXCEPT !.pc = "pushMetadata",
                                       !.a = Archive(desc, REPOFILE_META_KEY),
                                       !.repospec = Serialize([desc EXCEPT !.repo_files = archived])]
                      ELSE IF outcome = "metadir"
                      THEN GenFail(gen, "error met while creating tempdir for metadata")
                      ELSE GenFail(gen, "failed adding Metadata file to repository")
    /\ UNCHANGED <<registry, now, hist, notGen>>

PushMetadata == PushImageFromArtifact(REPOFILE_META_KEY, "pushMetadata", "pushRepoMetadata")

\* pushRepoMetadata: the temporary directory, helpers.Tar of the spec
\* document, pushFileFromArtifact; then the post-build event and return nil
PushRepoMetadata ==
    \/ /\ gen.pc = "pushRepoMetadata"
       /\ \E e \in {"Error met while creating tempdir for metadata",
                    "Error met while archiving repository file"} :
            gen' = GenFail(gen, e)
       /\ UNCHANGED <<desc, registry, now, hist, notGen>>
    \/ PushFileFromArtifact(REPOSITORY_SPECFILE, gen.repospec, "pushRepoMetadata", "done",
                            <<"EventRepositoryPostBuild">>)

\* the caller takes the error; the history of the run is brought up to date
GenerateReturn ==
    /\ gen.pc = "done"
    /\ gen' = GenIdle
    /\ hist' = [hist EXCEPT
          !.calls = hist.calls + 1,
          !.successes = IF gen.err = "" THEN hist.successes + 1 ELSE hist.successes,
          !.plain = hist.plain /\ gen.err = "" /\ ~gen.resetRevision,
          !.sinceReset = IF gen.err # "" THEN hist.sinceReset
                         ELSE IF gen.resetRevision THEN 0
                         ELSE IF hist.sinceReset >= 0 THEN hist.sinceReset + 1
                         ELSE hist.sinceReset,
          !.failedSinceReset = IF gen.err # "" THEN TRUE
                               ELSE IF gen.resetRevision THEN FALSE
                               ELSE hist.failedSinceReset]
    /\ UNCHANGED <<desc, registry, now, notGen>>

\* the clock advances between two calls
Tick ==
    /\ gen.pc = "idle"
    /\ hist.calls < MaxCalls
    /\ now < MaxTime
    /\ now' = now + 1
    /\ UNCHANGED <<desc, registry, gen, hist, notGen>>

\* r.IncrementRevision(), called between two calls
IncrementRevision ==
    /\ gen.pc = "idle"
    /\ hist.calls < MaxCalls
    /\ desc.revision < MaxRev
    /\ desc' = [desc EXCEPT !.revision = desc.revision + 1]
    /\ hist' = [hist EXCEPT !.incremented = TRUE]
    /\ UNCHANGED <<registry, now, gen, notGen>>

\* r.SetLastUpdate(u), called between two calls; Generate sets LastUpdate
\* anew on entry
SetLastUpdate ==
    /\ gen.pc = "idle"
    /\ hist.calls < MaxCalls
    /\ \E u \in {FormatInt(t) : t \in 0..MaxTime} :
          desc' = [desc EXCEPT !.last_update = u]
    /\ UNCHANGED <<registry, now, gen, hist, notGen>>

\* r.AddUrl(p), called between two calls
AddUrl ==
    /\ gen.pc = "idle"
    /\ hist.calls < MaxCalls
    /\ Len(desc.urls) < MaxUrls
    /\ \E p \in {"https://other.local"} :
          desc' = [desc EXCEPT !.urls = Append(desc.urls, p)]
    /\ UNCHANGED <<registry, now, gen, hist, notGen>>

\* the package tree is edited between two calls
EditTree ==
    /\ gen.pc = "idle"
    /\ hist.calls < MaxCalls
    /\ \E g \in Generations \ {desc.content} : desc' = [desc EXCEPT !.content = g]
    /\ UNCHANGED <<registry, now, gen, hist, notGen>>

GenNext ==
    \/ WriteRejected
    \/ GenerateCall
    \/ FetchSpec
    \/ BumpAndAnnounce
    \/ AddRuntimeTree
    \/ PushRuntimeTree
    \/ AddCompilerTree
    \/ PushCompilerTree
    \/ AddMetadata
    \/ PushMetadata
    \/ PushRepoMetadata
    \/ GenerateReturn
    \/ Tick
    \/ IncrementRevision
    \/ SetLastUpdate
    \/ EditTree

\* a descriptor as GenerateRepository builds it, at a revision of its
\* configuration
FreshDescriptors ==
    { [name |-> "system", urls |-> <<"https://mirror.local">>, priority |-> 1,
       type |-> DockerRepositoryType, verify |-> FALSE, revision |-> rev,
       last_update |-> "", repo_files |-> NoManifest, pushImages |-> push,
       forcePush |-> FALSE, content |-> "g1"] : rev \in 0..1, push \in BOOLEAN }

\* the descriptors GenerateRepository builds, with its force flag
ForcePushDescriptors ==
    { [name |-> "system", urls |-> <<"https://mirror.local">>, priority |-> 1,
       type |-> DockerRepositoryType, verify |-> FALSE, revision |-> 0,
       last_update |-> "", repo_files |-> NoManifest, pushImages |-> push,
       forcePush |-> force, content |-> "g1"] : push \in BOOLEAN, force \in BOOLEAN }

\* a descriptor whose configured type is none of disk, http, docker
UnknownTypeDescriptors ==
    { [name |-> "system", urls |-> <<"https://mirror.local">>, priority |-> 1,
       type |-> "rsync", verify |-> FALSE, revision |-> 0,
       last_update |-> "", repo_files |-> NoManifest, pushImages |-> TRUE,
       forcePush |-> FALSE, content |-> "g1"] }

EmptyRegistry == [t \in Tags |-> NoImage]

\* the registry after a complete publish of revision rev by a descriptor
\* with an empty manifest, AddTree having registered the compiler tree from
\* the default entry compilerTree: each bundle is tagged with the file name
\* of its entry, and under the tree default the compiler tree, named as the
\* tree is, was pushed over the tree image
PublishedRegistry(rev, compilerTree) ==
    LET files == WithArchive(WithArchive(WithArchive(NoManifest,
                    REPOFILE_TREE_KEY, DefaultRepositoryFile(REPOFILE_TREE_KEY),
                    Bundle(REPOFILE_TREE_KEY, "g1")),
                    REPOFILE_COMPILER_TREE_KEY, compilerTree,
                    Bundle(REPOFILE_COMPILER_TREE_KEY, "g1")),
                    REPOFILE_META_KEY, DefaultRepositoryFile(REPOFILE_META_KEY),
                    Bundle(REPOFILE_META_KEY, "g1"))
    IN  [t \in Tags |->
            IF t = REPOSITORY_SPECFILE
            THEN [kind |-> "spec", name |-> "system", urls |-> <<"https://mirror.local">>,
                  priority |-> 1, type |-> DockerRepositoryType, verify |-> FALSE,
                  revision |-> rev, last_update |-> FormatInt(1), repo_files |-> files]
            ELSE IF t = files[REPOFILE_META_KEY].filename
            THEN Bundle(REPOFILE_META_KEY, "g1")
            ELSE IF t = files[REPOFILE_COMPILER_TREE_KEY].filename
            THEN Bundle(REPOFILE_COMPILER_TREE_KEY, "g1")
            ELSE IF t = files[REPOFILE_TREE_KEY].filename
            THEN Bundle(REPOFILE_TREE_KEY, "g1")
            ELSE NoImage]

\* a registry whose spec image was pushed without the metadata key
IncompleteRegistry ==
    LET published == PublishedRegistry(1, AddTreeDefault("calls", REPOFILE_COMPILER_TREE_KEY))
    IN  [published EXCEPT
            ![REPOSITORY_SPECFILE].repo_files =
                [k \in {REPOFILE_TREE_KEY} |-> published[REPOSITORY_SPECFILE].repo_files[k]]]

\* the registries a run starts on: an empty one, from which the run reaches
\* those of its own publishes, and under the calls' defaults an incomplete
\* one and those of an earlier publish at each revision
Registries(build) ==
    IF build = "calls"
    THEN {EmptyRegistry, IncompleteRegistry} \cup
         {PublishedRegistry(rev, AddTreeDefault(build, REPOFILE_COMPILER_TREE_KEY)) :
             rev \in 1..MaxRev}
    ELSE {EmptyRegistry}

\* the history of a run: the calls returned, those that returned nil, whether
\* all of them returned nil without a reset, the calls that returned nil
\* since the last one that reset (-1 before the first), whether a call
\* failed since then, whether IncrementRevision was called, the revisions
\* the run started from, and the build that runs
NoHistory ==
    [calls |-> 0, successes |-> 0, plain |-> TRUE, sinceReset |-> -1,
     failedSinceReset |-> FALSE, incremented |-> FALSE, revision0 |-> 0,
     published0 |-> NoImage, build |-> "calls"]

(***************************************************************************)
(* The registry generator's Initialize (generatePackageImages), called by  *)
(* initialize(src).  One action per metadata file that filepath.Walk       *)
(* hands to the callback.                                                  *)
(***************************************************************************)
\* the packages of the metadata files, named by their ImageID
PackageIds == 1..MaxFiles

BuildNeverSkipped(imagePush, available, force) == FALSE

\* generatePackageImages: whether the final image is left as it is
BuildSkipped(imagePush, available, force) == imagePush /\ available /\ ~force

\* a file under src that is no *.metadata.yaml file
OtherFile == 0

\* strings.HasSuffix(info.Name(), ".metadata.yaml")
IsSidecar(f) == f # OtherFile

PrunedNever(db, id) == FALSE

\* db.FindPackage(a.CompileSpec.Package) returns an error: the package is
\* not in the tree
Pruned(db, id) == id \notin db

IniIdle(c) ==
    [type |-> c.type, imagePush |-> c.imagePush, force |-> c.force, db |-> c.db,
     files |-> c.files, index |-> c.index,
     pc |-> "idle", todo |-> <<>>, art |-> <<>>, calls |-> <<>>, err |-> ""]

\* initialize(src): the generator, then generator.Initialize(src, db)
InitializeCall ==
    /\ ini.pc = "idle"
    /\ ini' = IF getGenerator(ini) = "nil"
              THEN [ini EXCEPT !.pc = "done",
                               !.err = "while constructing repository generator"]
              ELSE [ini EXCEPT !.pc = "walk", !.todo = ini.files]
    /\ UNCHANGED <<images, notIni>>

\* the callback ff on the next file of the walk
WalkFile ==
    /\ ini.pc = "walk"
    /\ ini.todo # <<>>
    /\ LET id == Head(ini.todo)
           available == id \in images
           build == ~BuildSkipped(ini.imagePush, available, ini.force)
           push == ini.imagePush /\ ~PushSkipped(available, ini.force)
           built == IF build THEN <<BackendCall("GenerateFinalImage", id, available)>> ELSE <<>>
           pushed == IF push THEN <<BackendCall("Push", id, available)>> ELSE <<>>
           failed(e, cs) == [ini EXCEPT !.pc = "done", !.err = e, !.art = <<>>,
                                        !.calls = ini.calls \o cs]
           kept == IsSidecar(id) /\ ~Pruned(ini.db, id)
       IN  \E outcome \in {"ok", "read", "yaml", "generate", "push"} :
            /\ outcome \in {"read", "yaml"} => IsSidecar(id)
            /\ outcome = "generate" => (kept /\ build)
            /\ outcome = "push" => (kept /\ push)
            /\ ini' = IF outcome = "read" THEN failed("Error reading file", <<>>)
                      ELSE IF outcome = "yaml" THEN failed("Error reading yaml", <<>>)
                      ELSE IF ~kept THEN [ini EXCEPT !.todo = Tail(ini.todo)]
                      ELSE IF outcome = "generate"
                      THEN failed("Failed generating metadata tree", built)
                      ELSE IF outcome = "push"
                      THEN failed("Failed while pushing image", built \o pushed)
                      ELSE [ini EXCEPT !.todo = Tail(ini.todo),
                                       !.art = Append(ini.art, id),
                                       !.calls = ini.calls \o built \o pushed]
            /\ images' = IF outcome = "ok" /\ kept /\ push
                         THEN images \cup {id} ELSE images
    /\ UNCHANGED notIni

\* filepath.Walk is over: r.Index = art
InitializeReturn ==
    /\ ini.pc = "walk"
    /\ ini.todo = <<>>
    /\ ini' = [ini EXCEPT !.pc = "done", !.index = ini.art]
    /\ UNCHANGED <<images, notIni>>

IniNext ==
    \/ InitializeCall
    \/ WalkFile
    \/ InitializeReturn

\* the sequences of distinct elements of S
Arrangements(S) ==
    {s \in UNION {[1..n -> S] : n \in 0..Cardinality(S)} :
        \A i, j \in 1..Len(s) : i # j => s[i] # s[j]}

\* the configurations initialize may be called with: a docker or an unknown
\* type, the flags, the package tree, the files under src in walk order
IniConfigs ==
    { [type |-> t, imagePush |-> push, force |-> force, db |-> db, files |-> files,
       index |-> <<>>] :
        t \in {DockerRepositoryType, "rsync"}, push \in BOOLEAN, force \in BOOLEAN,
        db \in SUBSET PackageIds, files \in Arrangements(PackageIds \cup {OtherFile}) }

ParkedIni ==
    IniIdle([type |-> DockerRepositoryType, imagePush |-> FALSE, force |-> FALSE,
             db |-> {}, files |-> <<>>, index |-> <<>>])

(***************************************************************************)
(* The searches of one repository: FileSearch, SearchArtefact, and         *)
(* SearchPackages over the collection holding that repository.  A path is  *)
(* the sequence of its segments; a pattern is a literal run of segments,   *)
(* anchored at the start of the path or not, or a text regexp.Compile      *)
(* rejects.                                                                *)
(***************************************************************************)
PackageNames == {"foo", "bar"}

Paths == {<<"usr", "bin", "foo">>, <<"usr", "bin", "bar">>, <<"etc", "foo">>}

Patterns ==
    { [valid |-> TRUE, anchored |-> FALSE, segs |-> <<"bin", "foo">>],
      [valid |-> TRUE, anchored |-> FALSE, segs |-> <<"foo">>],
      [valid |-> TRUE, anchored |-> TRUE, segs |-> <<"usr">>],
      [valid |-> TRUE, anchored |-> FALSE, segs |-> <<"bin", "baz">>],
      [valid |-> FALSE, anchored |-> FALSE, segs |-> <<"(">>] }

\* the file lists of an artifact: no file, one, or two distinct ones
FileLists ==
    {<<>>} \cup {<<f>> : f \in Paths}
           \cup {fg \in {<<f, g>> : f \in Paths, g \in Paths} : fg[1] # fg[2]}

Artifacts == { [pkg |-> n, files |-> fs] : n \in PackageNames, fs \in FileLists }

NoArtifact == [pkg |-> "nil", files |-> <<>>]

\* regexp.MatchString on a compiled pattern: the pattern occurs in the text
MatchString(pattern, text) ==
    \E off \in 0..(Len(text) - Len(pattern.segs)) :
        /\ pattern.anchored => off = 0
        /\ \A i \in 1..Len(pattern.segs) : text[off + i] = pattern.segs[i]

\* the inner loop of FileSearch from file i on: whether a file matches
RECURSIVE FilesMatch(_, _, _)
FilesMatch(reg, files, i) ==
    IF i > Len(files) THEN FALSE
    ELSE IF MatchString(reg, files[i]) THEN TRUE
    ELSE FilesMatch(reg, files, i + 1)

RECURSIVE CountMatches(_, _, _)
CountMatches(reg, files, i) ==
    IF i > Len(files) THEN 0
    ELSE (IF MatchString(reg, files[i]) THEN 1 ELSE 0) + CountMatches(reg, files, i + 1)

RECURSIVE Repeat(_, _)
Repeat(x, n) == IF n = 0 THEN <<>> ELSE <<x>> \o Repeat(x, n - 1)

RECURSIVE FileSearchEveryFileFrom(_, _, _)
FileSearchEveryFileFrom(idx, reg, i) ==
    IF i > Len(idx) THEN <<>>
    ELSE Repeat(idx[i].pkg, CountMatches(reg, idx[i].files, 1))
            \o FileSearchEveryFileFrom(idx, reg, i + 1)

FileSearchEveryFile(idx, pattern) ==
    IF ~pattern.valid THEN [matches |-> <<>>, err |-> "error parsing regexp"]
    ELSE [matches |-> FileSearchEveryFileFrom(idx, pattern, 1), err |-> ""]

\* the outer loop of FileSearch from artifact i on
RECURSIVE FileSearchFrom(_, _, _)
FileSearchFrom(idx, reg, i) ==
    IF i > Len(idx) THEN <<>>
    ELSE (IF FilesMatch(reg, idx[i].files, 1) THEN <<idx[i].pkg>> ELSE <<>>)
            \o FileSearchFrom(idx, reg, i + 1)

\* FileSearch(pattern): the packages and the error
FileSearch(idx, pattern) ==
    IF ~pattern.valid THEN [matches |-> <<>>, err |-> "error parsing regexp"]
    ELSE [matches |-> FileSearchFrom(idx, pattern, 1), err |-> ""]

\* pkg.Package.Matches
Matches(a, p) == a = p

RECURSIVE SearchArtefactFrom(_, _, _)
SearchArtefactFrom(idx, p, i) ==
    IF i > Len(idx) THEN [artifact |-> NoArtifact, err |-> "Not found"]
    ELSE IF Matches(idx[i].pkg, p) THEN [artifact |-> idx[i], err |-> ""]
    ELSE SearchArtefactFrom(idx, p, i + 1)

SearchArtefactMissIsNil(idx, p) ==
    [artifact |-> SearchArtefactFrom(idx, p, 1).artifact, err |-> ""]

\* SearchArtefact(p): the first artifact of the package, or the error
SearchArtefact(idx, p) == SearchArtefactFrom(idx, p, 1)

\* PackageDatabase.FindPackageMatch: the packages of the tree whose name
\* the pattern matches, in the order of their names
FindPackageMatch(db, pattern) ==
    IF ~pattern.valid THEN [matches |-> <<>>, err |-> "error parsing regexp"]
    ELSE [matches |-> SelectSeq(<<"bar", "foo">>,
                                LAMBDA n : n \in db /\ MatchString(pattern, <<n>>)),
          err |-> ""]

SRegexPkg == 1
FileSearchMode == 3
SLabel == 0
SRegexLabel == 2

\* the label a package of the tree carries
LabelOf(n) == <<"kind", n>>

\* PackageDatabase.FindPackageLabel: the packages that carry the label
FindPackageLabel(db, p) ==
    [matches |-> SelectSeq(<<"bar", "foo">>, LAMBDA n : n \in db /\ LabelOf(n) = p.segs),
     err |-> ""]

\* PackageDatabase.FindPackageLabelMatch: the packages with a label the
\* pattern matches
FindPackageLabelMatch(db, pattern) ==
    IF ~pattern.valid THEN [matches |-> <<>>, err |-> "error parsing regexp"]
    ELSE [matches |-> SelectSeq(<<"bar", "foo">>,
                                LAMBDA n : n \in db /\ MatchString(pattern, LabelOf(n))),
          err |-> ""]

\* the switch of SearchPackages on the mode, for one repository
RepoMatches(r, p, t) ==
    IF t = SRegexPkg THEN FindPackageMatch(r.db, p)
    ELSE IF t = SLabel THEN FindPackageLabel(r.db, p)
    ELSE IF t = SRegexLabel THEN FindPackageLabelMatch(r.db, p)
    ELSE IF t = FileSearchMode THEN FileSearch(r.index, p)
    ELSE [matches |-> <<>>, err |-> ""]

\* the loop of SearchPackages over the packages one repository matched
RECURSIVE PackageMatches1(_, _, _)
PackageMatches1(idx, packs, i) ==
    IF i > Len(packs) THEN <<>>
    ELSE <<[package |-> packs[i], repo |-> "r",
            artifact |-> SearchArtefact(idx, packs[i]).artifact]>>
            \o PackageMatches1(idx, packs, i + 1)

\* Repositories{r}.SearchPackages(p, t): the matches of the one repository
SearchPackages(idx, db, p, t) ==
    LET found == RepoMatches([db |-> db, index |-> idx], p, t)
    IN  IF found.err = "" /\ Len(found.matches) > 0
        THEN PackageMatches1(idx, found.matches, 1)
        ELSE <<>>

NoSearch == [op |-> "none", arg |-> "none", mode |-> 0, res |-> "none"]

CallFileSearch ==
    /\ search.op = "none"
    /\ \E pattern \in Patterns :
        search' = [op |-> "FileSearch", arg |-> pattern, mode |-> FileSearchMode,
                   res |-> FileSearch(index, pattern)]
    /\ UNCHANGED <<index, treeDb, notSearch>>

CallSearchArtefact ==
    /\ search.op = "none"
    /\ \E p \in PackageNames :
        search' = [op |-> "SearchArtefact", arg |-> p, mode |-> 0,
                   res |-> SearchArtefact(index, p)]
    /\ UNCHANGED <<index, treeDb, notSearch>>

CallSearchPackages ==
    /\ search.op = "none"
    /\ \E pattern \in Patterns, t \in {SLabel, SRegexPkg, SRegexLabel, FileSearchMode} :
        search' = [op |-> "SearchPackages", arg |-> pattern, mode |-> t,
                   res |-> SearchPackages(index, treeDb, pattern, t)]
    /\ UNCHANGED <<index, treeDb, notSearch>>

SearchNext ==
    \/ CallFileSearch
    \/ CallSearchArtefact
    \/ CallSearchPackages

Indexes == UNION {[1..n -> Artifacts] : n \in 0..MaxArtifacts}

(***************************************************************************)
(* The spec document: repository.yaml written from a descriptor and read   *)
(* back.                                                                   *)
(***************************************************************************)
\* the keys yaml.Marshal leaves out of the document: the fields tagged
\* omitempty that hold their zero value
OmittedKeys(s) ==
    (IF s.revision = 0 THEN {"revision"} ELSE {})
      \cup (IF s.last_update = "" THEN {"last_update"} ELSE {})

\* yaml.Marshal(serialized): the document as a mapping from its keys
Marshal(s) == [k \in (DOMAIN s \ {"kind"}) \ OmittedKeys(s) |-> s[k]]

Field(y, k, zero) == IF k \in DOMAIN y THEN y[k] ELSE zero

\* yaml.Unmarshal(data, &p): a key the document lacks leaves the zero value
Unmarshal(y) ==
    [kind |-> "spec", name |-> Field(y, "name", ""), urls |-> Field(y, "urls", <<>>),
     priority |-> Field(y, "priority", 0), type |-> Field(y, "type", ""),
     verify |-> Field(y, "verify", FALSE), revision |-> Field(y, "revision", 0),
     last_update |-> Field(y, "last_update", ""),
     repo_files |-> Field(y, "repo_files", NoManifest)]

NoDocument == [k \in {} |-> ""]

RtIdle(r) == [pc |-> "idle", r |-> r, doc |-> NoDocument, back |-> NoRepo]

\* data, err := yaml.Marshal(serialized) on the value of r.Serialize()
WriteSpecDocument ==
    /\ rt.pc = "idle"
    /\ rt' = [rt EXCEPT !.pc = "written", !.doc = Marshal(Serialize(rt.r))]
    /\ UNCHANGED notRt

\* NewLuetSystemRepositoryFromYaml(data, db) on the document written
ReadSpecDocument ==
    /\ rt.pc = "written"
    /\ rt' = [rt EXCEPT !.pc = "read",
                        !.back = NewLuetSystemRepositoryFromYaml(Unmarshal(rt.doc))]
    /\ UNCHANGED notRt

RtNext == WriteSpecDocument \/ ReadSpecDocument

\* the manifests a descriptor holds: none, tree and metadata, and the three
\* keys Generate sets
Manifests ==
    {NoManifest} \cup
    { [k \in ks |-> RepositoryFile(DefaultRepositoryFile(k).filename, Bundle(k, "g1"))] :
        ks \in {ManifestKeys, ManifestKeys \cup {REPOFILE_COMPILER_TREE_KEY}} }

\* the descriptors written: every revision from 0 to MaxRev, a timestamp or
\* none
RoundTripDescriptors ==
    { [name |-> n, urls |-> u, priority |-> p, type |-> t, verify |-> v,
       revision |-> rev, last_update |-> ts, repo_files |-> m,
       pushImages |-> FALSE, forcePush |-> FALSE, content |-> "g1"] :
        n \in {"system", ""},
        u \in {<<>>, <<"https://mirror.local">>,
               <<"https://mirror.local", "https://other.local">>},
        p \in 0..1,
        t \in {DiskRepositoryType, HttpRepositoryType, DockerRepositoryType},
        v \in BOOLEAN, rev \in 0..MaxRev,
        ts \in {""} \cup {FormatInt(i) : i \in 1..MaxTime},
        m \in Manifests }

(***************************************************************************)
(* Repositories.SearchPackages over a collection: each repository has its  *)
(* priority, the packages of its tree and its artifact index.              *)
(***************************************************************************)
\* the loop over repoMatches: each package with the repository and the
\* artifact SearchArtefact returns for it
RECURSIVE PairWithArtefact(_, _, _)
PairWithArtefact(r, packs, i) ==
    IF i > Len(packs) THEN <<>>
    ELSE <<[package |-> packs[i], repo |-> r.id,
            artifact |-> SearchArtefact(r.index, packs[i]).artifact]>>
            \o PairWithArtefact(r, packs, i + 1)

RECURSIVE SearchReposFrom(_, _, _, _)
\* the loop over the repositories from index i
SearchReposFrom(re, p, t, i) ==
    IF i > Len(re) THEN <<>>
    ELSE LET found == RepoMatches(re[i], p, t)
         IN  (IF found.err = "" /\ Len(found.matches) > 0
              THEN PairWithArtefact(re[i], found.matches, 1) ELSE <<>>)
                \o SearchReposFrom(re, p, t, i + 1)

\* Repositories.SearchPackages(p, t), on the slice as sort.Sort left it
SearchPackagesAll(re, p, t) == SearchReposFrom(Sort(re), p, t, 1)

\* what is searched for: a file and a name, a label, nothing that exists,
\* and a pattern regexp.Compile rejects
SearchPatterns ==
    { [valid |-> TRUE, anchored |-> FALSE, segs |-> <<"foo">>],
      [valid |-> TRUE, anchored |-> FALSE, segs |-> <<"kind", "foo">>],
      [valid |-> TRUE, anchored |-> FALSE, segs |-> <<"kind">>],
      [valid |-> FALSE, anchored |-> FALSE, segs |-> <<"(">>] }

CallSearchPackagesAll ==
    /\ search.op = "none"
    /\ \E pattern \in SearchPatterns, t \in {SLabel, SRegexPkg, SRegexLabel, FileSearchMode} :
        search' = [op |-> "SearchPackagesAll", arg |-> pattern, mode |-> t,
                   res |-> SearchPackagesAll(repos, pattern, t)]
    /\ repos' = Sort(repos)
    /\ UNCHANGED <<aggReq, aggOp, aggRes, index, treeDb, syncVars, genVars, iniVars, rtVars>>

\* the caller takes the matches
ReturnSearchPackagesAll ==
    /\ search.op = "SearchPackagesAll"
    /\ search' = NoSearch
    /\ UNCHANGED <<aggVars, index, treeDb, syncVars, genVars, iniVars, rtVars>>

SearchAllNext == CallSearchPackagesAll \/ ReturnSearchPackagesAll

\* the artifacts of the searched repositories: a package with a file the
\* file pattern matches or with one it does not match
SearchedArtifacts ==
    { [pkg |-> n, files |-> fs] :
        n \in PackageNames, fs \in {<<<<"usr", "bin", "foo">>>>, <<<<"usr", "bin", "bar">>>>} }

SearchedIndexes == UNION {[1..n -> SearchedArtifacts] : n \in 0..MaxArtifacts}

\* two repositories, the one of lower precedence registered first
SearchedCollections ==
    { <<[id |-> 1, priority |-> 2, db |-> d1, index |-> i1],
        [id |-> 2, priority |-> 1, db |-> d2, index |-> i2]>> :
        d1 \in {{"foo"}, PackageNames}, d2 \in {{"foo"}, PackageNames},
        i1 \in SearchedIndexes, i2 \in SearchedIndexes }

(***************************************************************************)
(* Specifications.  Each one runs one component and parks the others.      *)
(***************************************************************************)
\* the values of a component that does not run
ParkedLocal ==
    [name |-> "system", urls |-> <<"https://mirror.local">>,
     authentication |-> "credentials", type |-> HttpRepositoryType,
     priority |-> 1, verify |-> TRUE, cached |-> TRUE]
ParkedRemote == [spec |-> NoDoc, tree |-> NoFile, meta |-> NoFile]
ParkedDescriptor ==
    [name |-> "system", urls |-> <<"https://mirror.local">>, priority |-> 1,
     type |-> DockerRepositoryType, verify |-> FALSE, revision |-> 0,
     last_update |-> "", repo_files |-> NoManifest, pushImages |-> FALSE,
     forcePush |-> FALSE, content |-> "g1"]

ParkedRoundTrip == RtIdle(ParkedDescriptor)

AggInit ==
    /\ repos \in Collections
    /\ aggReq \in Requests
    /\ aggOp = "none"
    /\ aggRes = <<>>
    /\ local = ParkedLocal
    /\ remote = ParkedRemote
    /\ cacheDir = EmptyCache
    /\ sync = [p \in Procs |-> SyncIdle]
    /\ desc = ParkedDescriptor
    /\ registry = EmptyRegistry
    /\ now = 1
    /\ gen = GenIdle
    /\ hist = NoHistory
    /\ images = {}
    /\ ini = ParkedIni
    /\ index = <<>>
    /\ treeDb = {}
    /\ search = NoSearch
    /\ rt = ParkedRoundTrip

SyncInit ==
    /\ local \in LocalDescriptors
    /\ remote \in UNION {RemoteStates(a) : a \in Adverts}
    /\ cacheDir = EmptyCache
    /\ sync = [p \in Procs |-> SyncIdle]
    /\ repos = <<>>
    /\ aggReq = <<>>
    /\ aggOp = "none"
    /\ aggRes = <<>>
    /\ desc = ParkedDescriptor
    /\ registry = EmptyRegistry
    /\ now = 1
    /\ gen = GenIdle
    /\ hist = NoHistory
    /\ images = {}
    /\ ini = ParkedIni
    /\ index = <<>>
    /\ treeDb = {}
    /\ search = NoSearch
    /\ rt = ParkedRoundTrip

GenInit ==
    /\ desc \in FreshDescriptors \cup UnknownTypeDescriptors
    /\ \E build \in Builds :
          /\ registry \in Registries(build)
          /\ hist = [NoHistory EXCEPT !.revision0 = desc.revision,
                                      !.published0 = registry[REPOSITORY_SPECFILE],
                                      !.build = build]
    /\ now = 1
    /\ gen = GenIdle
    /\ repos = <<>>
    /\ aggReq = <<>>
    /\ aggOp = "none"
    /\ aggRes = <<>>
    /\ local = ParkedLocal
    /\ remote = ParkedRemote
    /\ cacheDir = EmptyCache
    /\ sync = [p \in Procs |-> SyncIdle]
    /\ images = {}
    /\ ini = ParkedIni
    /\ index = <<>>
    /\ treeDb = {}
    /\ search = NoSearch
    /\ rt = ParkedRoundTrip

IniInit ==
    /\ images \in SUBSET PackageIds
    /\ ini \in {IniIdle(c) : c \in IniConfigs}
    /\ repos = <<>>
    /\ aggReq = <<>>
    /\ aggOp = "none"
    /\ aggRes = <<>>
    /\ local = ParkedLocal
    /\ remote = ParkedRemote
    /\ cacheDir = EmptyCache
    /\ sync = [p \in Procs |-> SyncIdle]
    /\ desc = ParkedDescriptor
    /\ registry = EmptyRegistry
    /\ now = 1
    /\ gen = GenIdle
    /\ hist = NoHistory
    /\ index = <<>>
    /\ treeDb = {}
    /\ search = NoSearch
    /\ rt = ParkedRoundTrip

GenForceInit ==
    /\ desc \in ForcePushDescriptors \cup UnknownTypeDescriptors
    /\ \E build \in Builds :
          /\ registry \in Registries(build)
          /\ hist = [NoHistory EXCEPT !.revision0 = desc.revision,
                                      !.published0 = registry[REPOSITORY_SPECFILE],
                                      !.build = build]
    /\ now = 1
    /\ gen = GenIdle
    /\ repos = <<>>
    /\ aggReq = <<>>
    /\ aggOp = "none"
    /\ aggRes = <<>>
    /\ local = ParkedLocal
    /\ remote = ParkedRemote
    /\ cacheDir = EmptyCache
    /\ sync = [p \in Procs |-> SyncIdle]
    /\ images = {}
    /\ ini = ParkedIni
    /\ index = <<>>
    /\ treeDb = {}
    /\ search = NoSearch
    /\ rt = ParkedRoundTrip

SyncParInit ==
    /\ local \in {l \in LocalDescriptors : l.cached /\ Client(l) # "nil"}
    /\ remote \in {r \in Published(AdvertOf(local)) :
                       r.spec.revision = 1 /\ r.spec.last_update = FormatInt(1)
                       /\ r.tree.gen = "g1"}
    /\ cacheDir = EmptyCache
    /\ sync = [p \in Procs |-> SyncIdle]
    /\ repos = <<>>
    /\ aggReq = <<>>
    /\ aggOp = "none"
    /\ aggRes = <<>>
    /\ desc = ParkedDescriptor
    /\ registry = EmptyRegistry
    /\ now = 1
    /\ gen = GenIdle
    /\ hist = NoHistory
    /\ images = {}
    /\ ini = ParkedIni
    /\ index = <<>>
    /\ treeDb = {}
    /\ search = NoSearch
    /\ rt = ParkedRoundTrip

SearchInit ==
    /\ index \in Indexes
    /\ treeDb \in SUBSET PackageNames
    /\ search = NoSearch
    /\ repos = <<>>
    /\ aggReq = <<>>
    /\ aggOp = "none"
    /\ aggRes = <<>>
    /\ local = ParkedLocal
    /\ remote = ParkedRemote
    /\ cacheDir = EmptyCache
    /\ sync = [p \in Procs |-> SyncIdle]
    /\ desc = ParkedDescriptor
    /\ registry = EmptyRegistry
    /\ now = 1
    /\ gen = GenIdle
    /\ hist = NoHistory
    /\ images = {}
    /\ ini = ParkedIni
    /\ rt = ParkedRoundTrip

\* a cache directory as a completed Sync of revision 1 leaves it
FilledCache ==
    [spec |-> SpecDoc(ParkedLocal, 1, 1, "g1", ManifestKeys),
     treefs |-> Bundle(REPOFILE_TREE_KEY, "g1"), metafs |-> Bundle(REPOFILE_META_KEY, "g1")]

\* descriptors of every type at the entry of Sync, Write and initialize
DispatchInit ==
    /\ local \in LocalDescriptors
    /\ remote \in {r \in Published(AdvertOf(local)) :
                       r.spec.revision = 1 /\ r.spec.last_update = FormatInt(1)
                       /\ r.tree.gen = "g1"}
    /\ cacheDir \in {EmptyCache, FilledCache}
    /\ sync = [p \in Procs |-> SyncIdle]
    /\ desc \in FreshDescriptors \cup UnknownTypeDescriptors
    /\ registry \in {EmptyRegistry,
                      PublishedRegistry(1, AddTreeDefault("calls", REPOFILE_COMPILER_TREE_KEY))}
    /\ now = 1
    /\ gen = GenIdle
    /\ hist = [NoHistory EXCEPT !.revision0 = desc.revision,
                                !.published0 = registry[REPOSITORY_SPECFILE]]
    /\ images \in SUBSET PackageIds
    /\ ini \in {IniIdle(c) : c \in {d \in IniConfigs : /\ d.db = PackageIds /\ d.imagePush /\ ~d.force
                                                         /\ \A i \in 1..Len(d.files) : IsSidecar(d.files[i])}}
    /\ repos = <<>>
    /\ aggReq = <<>>
    /\ aggOp = "none"
    /\ aggRes = <<>>
    /\ index = <<>>
    /\ treeDb = {}
    /\ search = NoSearch
    /\ rt = ParkedRoundTrip

\* the entries of the operations that choose a client or a generator by the
\* descriptor's type, and their returns; between them the caller adds
\* mirror urls to the descriptor
DispatchNext ==
    \/ SyncCall(1)
    \/ SyncReturn(1)
    \/ WriteRejected
    \/ GenerateCall
    \/ GenerateReturn
    \/ InitializeCall
    \/ AddUrl

RtInit ==
    /\ rt \in {RtIdle(r) : r \in RoundTripDescriptors}
    /\ repos = <<>>
    /\ aggReq = <<>>
    /\ aggOp = "none"
    /\ aggRes = <<>>
    /\ local = ParkedLocal
    /\ remote = ParkedRemote
    /\ cacheDir = EmptyCache
    /\ sync = [p \in Procs |-> SyncIdle]
    /\ desc = ParkedDescriptor
    /\ registry = EmptyRegistry
    /\ now = 1
    /\ gen = GenIdle
    /\ hist = NoHistory
    /\ images = {}
    /\ ini = ParkedIni
    /\ index = <<>>
    /\ treeDb = {}
    /\ search = NoSearch

SearchAllInit ==
    /\ repos \in SearchedCollections
    /\ search = NoSearch
    /\ aggReq = <<>>
    /\ aggOp = "none"
    /\ aggRes = <<>>
    /\ index = <<>>
    /\ treeDb = {}
    /\ local = ParkedLocal
    /\ remote = ParkedRemote
    /\ cacheDir = EmptyCache
    /\ sync = [p \in Procs |-> SyncIdle]
    /\ desc = ParkedDescriptor
    /\ registry = EmptyRegistry
    /\ now = 1
    /\ gen = GenIdle
    /\ hist = NoHistory
    /\ images = {}
    /\ ini = ParkedIni
    /\ rt = ParkedRoundTrip

SpecAgg == AggInit /\ [][AggNext]_vars

SpecSync == SyncInit /\ [][SyncNext]_vars

SpecGen == GenInit /\ [][GenNext]_vars

SpecIni == IniInit /\ [][IniNext]_vars

SpecSearch == SearchInit /\ [][SearchNext]_vars

SpecDispatch == DispatchInit /\ [][DispatchNext]_vars

SpecRoundTrip == RtInit /\ [][RtNext]_vars

SpecSearchAll == SearchAllInit /\ [][SearchAllNext]_vars

\* two concurrent Sync calls on one cache directory
SpecSyncPar == SyncParInit /\ [][SyncParNext]_vars

\* the generator run with and without the force flag
SpecGenForce == GenForceInit /\ [][GenNext]_vars

(***************************************************************************)
(* Claims about the aggregator.                                            *)
(***************************************************************************)
\* the repositories of the collection whose tree defines fingerprint f
Defining(f) == {i \in 1..Len(repos) : f \in repos[i].db}

\* among the positions S, the ids of the repositories of lowest priority number
LowestOf(S) == {repos[i].id : i \in {j \in S : \A k \in S : repos[j].priority <= repos[k].priority}}

\* the positions whose database reports a candidate for the selector
WithCandidate(sel) == {i \in 1..Len(repos) : FindPackageCandidate(repos[i], sel) # NoPkg}

Count(seq, x) == Cardinality({i \in 1..Len(seq) : seq[i] = x})

IsCandidate(p) == p.def # 0
HasCandidate(sel) == IsSelector(sel) /\ WithCandidate(sel) # {}
IsFound(p) == Defining(p.fp) # {}

\* C5: World() returns exactly one package per distinct fingerprint, and for a
\* fingerprint several repositories define, the definition of the repository
\* with the lowest priority number, in whatever order the collection is held.
C5_WorldLowestPriorityWins ==
    aggOp = "World" =>
        \A f \in FingerPrints :
            /\ Cardinality({p \in aggRes : p.fp = f}) = (IF Defining(f) = {} THEN 0 ELSE 1)
            /\ \A p \in aggRes : p.fp = f => p.def \in LowestOf(Defining(f))

\* C6: the definition SyncDatabase inserts into the target for a fingerprint
\* is the one of the repository with the lowest priority number.
C6_SyncDatabaseLowestPriorityWins ==
    aggOp = "SyncDatabase" =>
        \A i \in 1..Len(aggRes) : aggRes[i].def \in LowestOf(Defining(aggRes[i].fp))

\* C7: ResolveSelectors returns a non-selector package exactly once per
\* occurrence in the request, for any number of repositories.
C7_NonSelectorPassedOnce ==
    aggOp = "ResolveSelectors" =>
        \A p \in RequestAtoms : ~IsSelector(p) => Count(aggRes, p) = Count(aggReq, p)

\* C8: each requested selector contributes exactly one package, the candidate
\* of the first repository in ascending priority order that has one, and
\* nothing when no repository has a candidate.
C8_SelectorFirstCandidate ==
    aggOp = "ResolveSelectors" =>
        LET got == SelectSeq(aggRes, IsCandidate)
            want == SelectSeq(aggReq, HasCandidate)
        IN  /\ Len(got) = Len(want)
            /\ \A k \in 1..Len(got) :
                   \E i \in WithCandidate(want[k]) :
                       /\ repos[i].id \in LowestOf(WithCandidate(want[k]))
                       /\ got[k] = FindPackageCandidate(repos[i], want[k])

\* C8 witness: a selector satisfied only in a priority-10 repository while a
\* priority-1 repository has no candidate, resolved to that candidate.
C8_Witness ==
    /\ aggOp = "ResolveSelectors"
    /\ \E k \in 1..Len(aggReq) : IsSelector(aggReq[k])
    /\ \E i, j \in 1..Len(repos) :
           /\ repos[i].priority = 1 /\ "bar-2.0" \notin repos[i].db
           /\ repos[j].priority = 10 /\ "bar-2.0" \in repos[j].db
           /\ \A k \in 1..Len(repos) : repos[k].priority = 1 => "bar-2.0" \notin repos[k].db
           /\ Pkg("bar-2.0", repos[j].id) \in {aggRes[k] : k \in 1..Len(aggRes)}

\* C9: PackageMatches returns, per requested package in request order, at
\* most one match: the package FindPackage reports in the first repository in
\* ascending priority order that contains it, paired with that repository.
C9_PackageMatchesFirstRepo ==
    aggOp = "PackageMatches" =>
        LET want == SelectSeq(aggReq, IsFound)
        IN  /\ Len(aggRes) = Len(want)
            /\ \A k \in 1..Len(aggRes) :
                   \E i \in Defining(want[k].fp) :
                       /\ repos[i].id \in LowestOf(Defining(want[k].fp))
                       /\ aggRes[k] = [Package |-> FindPackage(repos[i], want[k]),
                                       Repo |-> repos[i].id]

\* C9 witness: two requested packages, one held by repositories of both
\* priorities, matched from the priority-1 repository.
C9_Witness ==
    /\ aggOp = "PackageMatches"
    /\ Len(aggReq) = 2
    /\ \E i, j \in 1..Len(repos) :
           /\ repos[i].priority = 1 /\ repos[j].priority = 10
           /\ "bar-2.0" \in repos[i].db /\ "bar-2.0" \in repos[j].db
           /\ \E k \in 1..Len(aggRes) : aggRes[k].Repo = repos[i].id

(***************************************************************************)
(* Claims about Sync.                                                      *)
(***************************************************************************)
InLog(s, e) == \E i \in 1..Len(s.log) : s.log[i] = e

\* the downloaded bundle does not have the checksum the manifest declares
TreeMismatch(s) ==
    /\ s.downloadedTreeFile # NoFile
    /\ Hash(s.downloadedTreeFile) # s.repo.repo_files[REPOFILE_TREE_KEY].checksums
MetaMismatch(s) ==
    /\ s.downloadedMeta # NoFile
    /\ Hash(s.downloadedMeta) # s.repo.repo_files[REPOFILE_META_KEY].checksums

IntegrityErrors == {"Tree integrity check failure", "Metadata integrity check failure"}

\* C1: for a cached repository, when the downloaded tree bundle or the
\* downloaded metadata bundle fails its checksum, Sync returns an error and no
\* descriptor, and the cached spec document, tree directory and metadata
\* directory are what they were before the call.
C1_IntegrityFailureKeepsCache ==
    \A p \in Procs :
        LET s == sync[p]
        IN  (s.pc = "done" /\ local.cached /\ (TreeMismatch(s) \/ MetaMismatch(s))) =>
                /\ s.err \in IntegrityErrors
                /\ s.result = NoRepo
                /\ cacheDir = s.cache0

\* C1 witness: a Sync over a populated cache that ended in a metadata
\* integrity failure.
C1_Witness ==
    /\ sync[1].pc = "done"
    /\ local.cached
    /\ sync[1].err = "Metadata integrity check failure"
    /\ MetaMismatch(sync[1])
    /\ sync[1].cache0.spec.kind = "spec"
    /\ sync[1].cache0.treefs.kind = "tree"

\* the condition under which the claim says Sync skips the bundles
SkipCondition(s) ==
    /\ local.cached
    /\ ~s.force
    /\ ReadSpecFile(s.cache0.spec) # NoRepo
    /\ ReadSpecFile(s.cache0.spec).revision = ReadSpecFile(s.file).revision
    /\ ReadSpecFile(s.cache0.spec).last_update = ReadSpecFile(s.file).last_update

BundleEvents == {"download tree", "verify tree", "download meta", "verify meta"}

\* C2: Sync skips the bundles and reports the repository as up to date if
\* and only if the repository is cached, force is false and the cached spec
\* document has the revision and the last_update of the downloaded one; then
\* the cache is not modified.  In every other case the tree download is
\* started, and a Sync that succeeds has downloaded and verified both bundles.
C2_SkipIffUpToDate ==
    \A p \in Procs :
        LET s == sync[p]
        IN  (s.pc = "done" /\ s.repo # NoRepo /\ s.err # "Error met while creating tempdir") =>
                /\ InLog(s, "already up to date") <=> SkipCondition(s)
                /\ SkipCondition(s) =>
                       /\ \A e \in BundleEvents : ~InLog(s, e)
                       /\ cacheDir = s.cache0
                /\ ~SkipCondition(s) =>
                       /\ InLog(s, "download tree")
                       /\ s.err = "" => \A e \in BundleEvents : InLog(s, e)

\* C2 witness: a Sync(force=false) that found the cache up to date and
\* returned a descriptor.
C2_Witness ==
    /\ sync[1].pc = "done"
    /\ sync[1].err = ""
    /\ sync[1].result # NoRepo
    /\ InLog(sync[1], "already up to date")

\* C10: the descriptor a successful Sync returns has the caller's urls,
\* authentication, type, priority, name and verify, and the revision,
\* last_update and repository-file manifest of the remote spec document.
C10_LocalFieldsOverrideRemote ==
    \A p \in Procs :
        LET s == sync[p]
        IN  (s.pc = "done" /\ s.err = "") =>
                /\ s.result.urls = local.urls
                /\ s.result.authentication = local.authentication
                /\ s.result.type = local.type
                /\ s.result.priority = local.priority
                /\ s.result.name = local.name
                /\ s.result.verify = local.verify
                /\ s.result.revision = s.file.revision
                /\ s.result.last_update = s.file.last_update
                /\ s.result.repo_files = s.file.repo_files

\* C10 witness: a successful Sync from a mirror whose spec document declares
\* another name, priority, type, urls and verify than the caller's.
C10_Witness ==
    /\ sync[1].pc = "done"
    /\ sync[1].err = ""
    /\ sync[1].file.name # local.name
    /\ sync[1].file.priority # local.priority
    /\ sync[1].file.type # local.type
    /\ sync[1].file.urls # local.urls
    /\ sync[1].file.verify # local.verify

(***************************************************************************)
(* Claims about the registry generator.                                    *)
(***************************************************************************)
Returned == gen.pc = "done"
ReturnedNil == gen.pc = "done" /\ gen.err = ""
HasSpec(image) == image # NoImage
PublishedRevision == registry[REPOSITORY_SPECFILE].revision

\* the revision a call without reset starts from: the one published in the
\* registry when the call ran, the in-memory one when none was published
Base(published, inMemory) == IF HasSpec(published) THEN published.revision ELSE inMemory

\* C3, as stated: after N calls that all returned nil, none with
\* resetRevision, the descriptor's revision is its initial revision plus N.
C3_InitialPlusN ==
    (gen.pc \in {"idle", "done"} /\ hist.plain /\ ~hist.incremented
        /\ (Returned => ReturnedNil /\ ~gen.resetRevision))
        => desc.revision = hist.revision0 + hist.successes + (IF Returned THEN 1 ELSE 0)

\* C3, amended: a call without reset that returns nil leaves the revision at
\* 1 + base, base being the revision of the spec published in the registry
\* when the call ran, or the in-memory revision before the call when none
\* was published; a descriptor that pushes its images publishes that
\* revision.  So N such calls in a row give B + N, with B the base of the
\* first call, when the descriptor pushes its images or nothing was
\* published, and R + 1 after each call when it does not push and a spec is
\* published at R.
C3_BasePlusOne ==
    /\ (ReturnedNil /\ ~gen.resetRevision) =>
          /\ desc.revision = 1 + Base(gen.published0, gen.revision0)
          /\ desc.pushImages => PublishedRevision = desc.revision
          /\ ~desc.pushImages => registry[REPOSITORY_SPECFILE] = gen.published0
    /\ (gen.pc = "idle" /\ hist.plain /\ ~hist.incremented /\ hist.successes > 0) =>
          IF desc.pushImages \/ ~HasSpec(hist.published0)
          THEN desc.revision = Base(hist.published0, hist.revision0) + hist.successes
          ELSE desc.revision = hist.published0.revision + 1

\* a second call in a row returned nil over a published spec whose revision
\* is not the one the descriptor started the run with
C3_Witness ==
    /\ ReturnedNil /\ ~gen.resetRevision
    /\ hist.plain /\ hist.successes = 1
    /\ HasSpec(hist.published0) /\ hist.published0.revision # hist.revision0
    /\ desc.pushImages
    /\ desc.revision = hist.published0.revision + 2

\* C4, as stated: a call with resetRevision that returns nil yields revision
\* 1, and the k-th later call without reset yields 1 + k.
C4_ResetThenCount ==
    /\ (ReturnedNil /\ gen.resetRevision) => desc.revision = 1
    /\ (gen.pc = "idle" /\ hist.sinceReset >= 0 /\ ~hist.failedSinceReset
           /\ ~hist.incremented)
          => desc.revision = 1 + hist.sinceReset

\* C4, amended: a call with resetRevision that returns nil yields revision
\* 1 whatever the in-memory and the published revisions were, and publishes
\* it when the descriptor pushes its images; for a descriptor that pushes
\* its images the k-th later call without reset that returns nil yields and
\* publishes 1 + k, failed calls in between included.
C4_ResetThenCountWhenPushed ==
    /\ (ReturnedNil /\ gen.resetRevision) =>
          /\ desc.revision = 1
          /\ desc.pushImages => PublishedRevision = 1
    /\ (desc.pushImages /\ hist.sinceReset >= 0) =>
          /\ gen.pc = "idle" => PublishedRevision = 1 + hist.sinceReset
          /\ (ReturnedNil /\ ~gen.resetRevision) =>
                /\ desc.revision = 2 + hist.sinceReset
                /\ PublishedRevision = 2 + hist.sinceReset

\* a reset over a published revision 2, then a failed call, then a call
\* without reset that publishes revision 2
C4_Witness ==
    /\ ReturnedNil /\ ~gen.resetRevision
    /\ desc.pushImages
    /\ hist.sinceReset = 0 /\ hist.failedSinceReset
    /\ HasSpec(hist.published0) /\ hist.published0.revision = 2
    /\ desc.revision = 2 /\ PublishedRevision = 2

(***************************************************************************)
(* Claims about the registry generator's Initialize.                       *)
(***************************************************************************)
CallsOn(id) == {i \in 1..Len(ini.calls) : ini.calls[i].id = id}
InArt(id) == \E i \in 1..Len(ini.art) : ini.art[i] = id

\* C11, as stated: a package image whose tag is available while force is
\* false is neither rebuilt nor pushed, whatever the push flag.
C11_AvailableNeverRebuiltNorPushed ==
    \A i \in 1..Len(ini.calls) : ~(ini.calls[i].available /\ ~ini.force)

\* C11, amended: with the push flag on, a package image whose tag is
\* available while force is false is neither rebuilt nor pushed; with the
\* push flag off nothing is pushed and the final image of every package
\* kept in the index is rebuilt, available or not.
C11_AvailableSkippedWhenPushing ==
    /\ \A i \in 1..Len(ini.calls) :
          LET c == ini.calls[i]
          IN  /\ c.op = "Push" => (ini.imagePush /\ ~(c.available /\ ~ini.force))
              /\ (c.op = "GenerateFinalImage" /\ c.available /\ ~ini.force) => ~ini.imagePush
    /\ ~ini.imagePush =>
          \A id \in PackageIds :
             InArt(id) => \E i \in CallsOn(id) : ini.calls[i].op = "GenerateFinalImage"

\* Initialize returned an index holding a package whose image was in the
\* registry, pushing without force, and made no backend call on it
C11_Witness ==
    /\ ini.pc = "done" /\ ini.err = ""
    /\ ini.imagePush /\ ~ini.force
    /\ \E id \in images : InArt(id) /\ CallsOn(id) = {}
    /\ \E id \in PackageIds : InArt(id) /\ CallsOn(id) # {}

\* C12: during Generate, a bundle tag (tree, compiler tree, metadata, spec
\* document) that ImageAvailable reports present while force is false is
\* neither rebuilt nor pushed.
C12_AvailableBundleNeverRebuiltNorPushed ==
    \A i \in 1..Len(gen.calls) : ~(gen.calls[i].available /\ ~desc.forcePush)

(***************************************************************************)
(* Claims about concurrent Sync calls.                                     *)
(***************************************************************************)
\* a call that has replaced the cached spec document and has not finished
\* unpacking
Mutating(p) ==
    sync[p].pc \in {"removeTree", "removeMeta", "unpackTree", "mkdirMeta", "unpackMeta"}

\* the cached spec document, tree and metadata belong to one revision
CacheOfOneRevision ==
    /\ ReadSpecFile(cacheDir.spec) # NoRepo
    /\ Verify(cacheDir.treefs, cacheDir.spec.repo_files[REPOFILE_TREE_KEY].checksums)
    /\ Verify(cacheDir.metafs, cacheDir.spec.repo_files[REPOFILE_META_KEY].checksums)

Unpacked(p) == sync[p].pc = "done" /\ InLog(sync[p], "unpack meta")

\* the second half of C13: once both calls have unpacked and are done, the
\* cache belongs to one revision
C13_CacheOfOneRevisionAfterBoth == (Unpacked(1) /\ Unpacked(2)) => CacheOfOneRevision

\* C13: two concurrent Sync calls on one cache directory never interleave
\* their copy-spec / remove / unpack steps, and once both are done the
\* cached spec document, tree and metadata belong to one remote revision.
C13_ConcurrentSyncSerialized ==
    /\ ~(Mutating(1) /\ Mutating(2))
    /\ C13_CacheOfOneRevisionAfterBoth

(***************************************************************************)
(* Claims about the validation and the ordering of Sync.                   *)
(***************************************************************************)
DeclaresBoth(doc) == {REPOFILE_TREE_KEY, REPOFILE_META_KEY} \subseteq DOMAIN doc.repo_files

Validated(s) == InLog(s, "validate " \o REPOSITORY_SPECFILE)

\* C14: a spec document is loaded only if its repo_files declare both the
\* tree and the meta key; Sync given a remote document that lacks one
\* returns the error, with no descriptor, no bundle download and the cache
\* as the call found it.
C14_MissingKeyRejected ==
    \A p \in Procs :
        LET s == sync[p]
        IN  /\ s.repo # NoRepo => DeclaresBoth(s.repo)
            /\ (Validated(s) /\ s.file.kind = "spec" /\ ~DeclaresBoth(s.file)) =>
                  /\ s.pc = "done"
                  /\ s.err = "Invalid repository"
                  /\ s.result = NoRepo
                  /\ \A ev \in BundleEvents : ~InLog(s, ev)
                  /\ cacheDir = s.cache0

\* a Sync over a filled cache was handed a document without the meta key
C14_Witness ==
    /\ sync[1].pc = "done"
    /\ sync[1].err = "Invalid repository"
    /\ DOMAIN sync[1].file.repo_files = {REPOFILE_TREE_KEY}
    /\ CacheOfOneRevision

(***************************************************************************)
(* Claims about the searches.                                              *)
(***************************************************************************)
\* the artifacts of the index owning a file the pattern matches
Owning(pattern) ==
    {i \in 1..Len(index) : \E k \in 1..Len(index[i].files) : MatchString(pattern, index[i].files[k])}

\* the k-th smallest element of a set of positions
Kth(S, k) == CHOOSE i \in S : Cardinality({j \in S : j < i}) = k - 1

\* C15: FileSearch returns, in index order, the package of each artifact
\* owning at least one file the pattern matches, once per artifact and
\* without merging artifacts of one package; it returns the empty list and
\* no error when no artifact owns such a file.
C15_FileSearchOncePerArtifact ==
    (search.op = "FileSearch" /\ search.arg.valid) =>
        /\ search.res.err = ""
        /\ Len(search.res.matches) = Cardinality(Owning(search.arg))
        /\ \A k \in 1..Len(search.res.matches) :
              search.res.matches[k] = index[Kth(Owning(search.arg), k)].pkg

\* two artifacts of one package both own a matching file, one of them two
\* such files, and the search returned that package twice
C15_Witness ==
    /\ search.op = "FileSearch" /\ search.arg.valid
    /\ Len(index) = 2 /\ index[1].pkg = index[2].pkg
    /\ Owning(search.arg) = {1, 2}
    /\ \A k \in 1..Len(index[1].files) : MatchString(search.arg, index[1].files[k])
    /\ Len(index[1].files) = 2
    /\ Len(search.res.matches) = 2

HasArtifact(p) == \E i \in 1..Len(index) : index[i].pkg = p

\* C16, as stated: SearchArtefact of a package no artifact matches returns
\* no artifact and no error, and a search matching nothing an empty list.
C16_MissIsEmptyNotError ==
    /\ (search.op = "SearchArtefact" /\ ~HasArtifact(search.arg)) =>
          (search.res.artifact = NoArtifact /\ search.res.err = "")
    /\ (search.op = "SearchPackages" /\ search.mode = FileSearchMode
          /\ search.arg.valid /\ Owning(search.arg) = {}) => search.res = <<>>

\* C16, amended: SearchArtefact of a package no artifact matches returns no
\* artifact together with the error "Not found", and the first artifact of
\* the package without error otherwise; SearchPackages drops that error
\* and lists the package with a nil artifact; a search matching nothing
\* returns the empty list.
C16_MissIsNotFoundError ==
    /\ search.op = "SearchArtefact" =>
          IF HasArtifact(search.arg)
          THEN /\ search.res.err = ""
               /\ search.res.artifact.pkg = search.arg
               /\ \E i \in 1..Len(index) :
                     /\ index[i] = search.res.artifact
                     /\ \A j \in 1..(i - 1) : index[j].pkg # search.arg
          ELSE search.res.artifact = NoArtifact /\ search.res.err = "Not found"
    /\ (search.op = "SearchPackages" /\ search.arg.valid) =>
          /\ \A k \in 1..Len(search.res) :
                search.res[k].artifact = NoArtifact <=> ~HasArtifact(search.res[k].package)
          /\ (search.mode = FileSearchMode /\ Owning(search.arg) = {}) => search.res = <<>>
          /\ (search.mode = SRegexPkg
                /\ \A n \in treeDb : ~MatchString(search.arg, <<n>>)) => search.res = <<>>
    /\ (search.op = "SearchPackages" /\ ~search.arg.valid) => search.res = <<>>

\* SearchArtefact missed in a filled index, returning the error
C16_Witness ==
    /\ search.op = "SearchArtefact"
    /\ Len(index) = 2
    /\ ~HasArtifact(search.arg)
    /\ search.res.err = "Not found"

(***************************************************************************)
(* Claims about the choice of client and generator.                        *)
(***************************************************************************)
KnownTypes == {DiskRepositoryType, HttpRepositoryType, DockerRepositoryType}

\* C17: for a descriptor whose type is none of disk, http, docker, Write and
\* initialize return an error without changing revision, last_update or
\* manifest and without a backend call, and Sync returns an error before
\* any DownloadFile and without touching the cache.
C17_UnknownTypeRejected ==
    /\ desc.type \notin KnownTypes =>
          /\ gen.pc \in {"idle", "done"}
          /\ gen.pc = "done" => gen.err = "invalid repository type"
          /\ gen.calls = <<>> /\ gen.events = <<>>
          /\ desc.revision = hist.revision0
          /\ desc.last_update = ""
          /\ desc.repo_files = NoManifest
          /\ registry[REPOSITORY_SPECFILE] = hist.published0
          /\ hist.successes = 0
    /\ ini.type \notin KnownTypes =>
          /\ ini.pc \in {"idle", "done"}
          /\ ini.pc = "done" => ini.err = "while constructing repository generator"
          /\ ini.calls = <<>> /\ ini.index = <<>> /\ ini.art = <<>>
    /\ local.type \notin KnownTypes =>
          \A p \in Procs :
             /\ sync[p].pc \in {"idle", "done"}
             /\ sync[p].pc = "done" =>
                   /\ sync[p].err = "no client could be generated from repository"
                   /\ sync[p].result = NoRepo
                   /\ sync[p].log = <<>>
                   /\ cacheDir = sync[p].cache0

\* Write, initialize and Sync have all returned their error for an unknown
\* type, Sync over a filled cache and Write over a published registry
C17_Witness ==
    /\ desc.type \notin KnownTypes /\ gen.pc = "done" /\ hist.calls > 0
    /\ registry = PublishedRegistry(1, AddTreeDefault("calls", REPOFILE_COMPILER_TREE_KEY))
    /\ ini.type \notin KnownTypes /\ ini.pc = "done" /\ ini.files # <<>>
    /\ local.type \notin KnownTypes /\ sync[1].pc = "done"
    /\ cacheDir = FilledCache

(***************************************************************************)
(* Claims about the spec document.                                         *)
(***************************************************************************)
RoundTripFields ==
    {"name", "urls", "priority", "type", "revision", "last_update", "repo_files", "verify"}

\* C18: a descriptor written with Serialize to the spec document and read
\* back with NewLuetSystemRepositoryFromYaml has the same name, urls,
\* priority, type, revision, last_update, repo_files and verify, for every
\* revision from 0 to MaxRev.
C18_RoundTrip ==
    rt.pc = "read" =>
        /\ rt.back # NoRepo
        /\ \A f \in RoundTripFields : rt.back[f] = rt.r[f]

\* a descriptor of revision 0 without timestamp, whose document lacks both
\* keys, has been read back with its manifest
C18_Witness ==
    /\ rt.pc = "read"
    /\ rt.r.revision = 0 /\ rt.r.last_update = ""
    /\ DOMAIN rt.doc \cap {"revision", "last_update"} = {}
    /\ rt.r.verify /\ rt.r.repo_files # NoManifest /\ Len(rt.r.urls) = 2

(***************************************************************************)
(* Claims about the order of the steps of one Sync.                        *)
(***************************************************************************)
\* the position of the first e in the log, 0 when e is not in it
Pos(log, e) ==
    IF \E i \in 1..Len(log) : log[i] = e
    THEN CHOOSE i \in 1..Len(log) : log[i] = e /\ \A j \in 1..(i - 1) : log[j] # e
    ELSE 0

Precedes(log, a, b) == Pos(log, a) > 0 /\ Pos(log, a) < Pos(log, b)

BundleDownloads == {"download tree", "download meta"}

CacheMutations ==
    {"copy " \o REPOSITORY_SPECFILE, "remove treefs", "remove metafs",
     "unpack tree", "mkdir metafs", "unpack meta"}

\* both bundles downloaded by the call match the checksums of its candidate
BothVerified(s) ==
    /\ s.repo # NoRepo
    /\ Hash(s.downloadedTreeFile) = s.repo.repo_files[REPOFILE_TREE_KEY].checksums
    /\ Hash(s.downloadedMeta) = s.repo.repo_files[REPOFILE_META_KEY].checksums

\* C19: within one Sync no bundle is downloaded before the spec document
\* was downloaded and validated for the mandatory keys, and the cached spec
\* document is not replaced, the cached directories are not removed and
\* nothing is unpacked before both bundles passed checksum verification.
C19_ValidateThenDownloadThenVerifyThenMutate ==
    \A p \in Procs :
        LET s == sync[p]
        IN  /\ \A e \in BundleDownloads :
                 InLog(s, e) =>
                    /\ Precedes(s.log, "download " \o REPOSITORY_SPECFILE, e)
                    /\ Precedes(s.log, "validate " \o REPOSITORY_SPECFILE, e)
                    /\ DeclaresBoth(s.file)
            /\ \A e \in CacheMutations :
                 InLog(s, e) =>
                    /\ Precedes(s.log, "verify tree", e)
                    /\ Precedes(s.log, "verify meta", e)
                    /\ BothVerified(s)
            /\ (s.pc # "idle" /\ cacheDir # s.cache0) =>
                    /\ InLog(s, "verify tree") /\ InLog(s, "verify meta")
                    /\ BothVerified(s)

\* a Sync of a cached repository went through every step and replaced the
\* cache it found
C19_Witness ==
    /\ sync[1].pc = "done" /\ sync[1].err = ""
    /\ local.cached
    /\ \A e \in BundleDownloads \cup CacheMutations : InLog(sync[1], e)
    /\ cacheDir # sync[1].cache0
    /\ sync[1].cache0 # EmptyCache

(***************************************************************************)
(* Claims about the base of the revision Generate publishes.               *)
(***************************************************************************)
\* the positions of a Generate call after BumpRevision returned nil
AfterBump ==
    {"addTree", "pushTree", "addCompilerTree", "pushCompilerTree", "addMetadata",
     "pushMetadata", "pushRepoMetadata"}

Bumped == gen.pc \in AfterBump \/ ReturnedNil

\* C20: a Generate call without reset over a spec image of revision R
\* works at, writes and (pushing its images) publishes revision R + 1,
\* whatever the descriptor's revision was before the call; the descriptor's
\* own revision is the base only when no spec image is found.
C20_PublishedSpecIsTheBase ==
    (Bumped /\ ~gen.resetRevision) =>
        /\ HasSpec(gen.published0) =>
              /\ desc.revision = gen.published0.revision + 1
              /\ ReturnedNil =>
                    /\ gen.repospec.kind = "spec"
                    /\ gen.repospec.revision = gen.published0.revision + 1
                    /\ desc.pushImages =>
                          PublishedRevision = gen.published0.revision + 1
        /\ ~HasSpec(gen.published0) =>
              /\ desc.revision = gen.revision0 + 1
              /\ ReturnedNil =>
                    /\ gen.repospec.kind = "spec"
                    /\ gen.repospec.revision = gen.revision0 + 1
                    /\ desc.pushImages => PublishedRevision = gen.revision0 + 1

\* a descriptor at revision 0 in memory published revision MaxRev + 1 over a
\* spec image of revision MaxRev
C20_Witness ==
    /\ ReturnedNil /\ ~gen.resetRevision
    /\ HasSpec(gen.published0) /\ gen.published0.revision = MaxRev
    /\ gen.revision0 = 0
    /\ desc.pushImages
    /\ PublishedRevision = MaxRev + 1

(***************************************************************************)
(* Claims about the failure semantics of Generate.                         *)
(***************************************************************************)
BundleKeys == {REPOFILE_TREE_KEY, REPOFILE_COMPILER_TREE_KEY, REPOFILE_META_KEY}

\* the manifest of a document names, for the three bundles of the
\* descriptor, the compressed file and its checksums
ManifestComplete(doc) ==
    /\ doc.kind = "spec"
    /\ BundleKeys \subseteq DOMAIN doc.repo_files
    /\ \A k \in BundleKeys :
          /\ doc.repo_files[k].filename # TREE_TARBALL
          /\ doc.repo_files[k].checksums = Hash(Archive(desc, k))

\* the call in flight has written a repoTemp/repository.yaml that is not
\* the document it extracted from the registry
SpecWritten ==
    /\ gen.pc # "idle"
    /\ gen.repospec # NoDoc
    /\ gen.repospec # gen.published0

\* the call in flight has pushed the spec image
SpecPushed == gen.pc # "idle" /\ registry[REPOSITORY_SPECFILE] # gen.published0

C21_CompleteManifestOrNoSpec ==
    /\ (gen.pc \in {"pushMetadata", "pushRepoMetadata"} \/ ReturnedNil \/ SpecWritten) =>
          /\ ManifestComplete(gen.repospec)
          /\ gen.repospec.repo_files = desc.repo_files
          /\ gen.repospec.revision = desc.revision
    /\ SpecPushed =>
          /\ ReturnedNil
          /\ registry[REPOSITORY_SPECFILE] = gen.repospec
          /\ ManifestComplete(registry[REPOSITORY_SPECFILE])

C21_NoStepAfterError ==
    (gen.pc = "done" /\ gen.err # "") =>
        /\ registry' = registry
        /\ desc' = desc
        /\ gen' = GenIdle

\* C21: the spec document is written, and pushed, only once the manifest
\* entries of the tree, the compiler tree and the metadata all carry the
\* compressed file name and the checksums; a failing step ends Generate
\* with an error, no step follows it, and no spec document with a partly
\* updated manifest is written or pushed.
C21_SpecAfterFullManifest ==
    [](C21_CompleteManifestOrNoSpec) /\ [][C21_NoStepAfterError]_vars

\* a call failed compressing the compiler tree, after the runtime tree was
\* archived and pushed, and neither wrote nor pushed a spec document
C21_Witness ==
    /\ Returned /\ gen.err = "Error met while adding archive to repository"
    /\ desc.pushImages
    /\ REPOFILE_TREE_KEY \in DOMAIN desc.repo_files
    /\ desc.repo_files[REPOFILE_TREE_KEY].checksums # NoChecksums
    /\ REPOFILE_COMPILER_TREE_KEY \in DOMAIN desc.repo_files
    /\ desc.repo_files[REPOFILE_COMPILER_TREE_KEY].checksums = NoChecksums
    /\ ImageAvailable(desc.repo_files[REPOFILE_TREE_KEY].filename)
    /\ ~SpecWritten /\ ~SpecPushed

(***************************************************************************)
(* Claims about the notifications of Generate.                             *)
(***************************************************************************)
PreBuild == "EventRepositoryPreBuild"
PostBuild == "EventRepositoryPostBuild"

Notified(ev) == \E i \in 1..Len(gen.events) : gen.events[i] = ev

\* the errors Generate returns before BumpRevision has returned nil
ErrorsBeforeBump ==
    {"invalid repository type", "error met while creating tempdir for repository",
     "while downloading " \o REPOSITORY_SPECFILE, "while extracting " \o REPOSITORY_SPECFILE,
     "Invalid repository"}

\* the last backend call of the run pushed the spec image, and the registry
\* holds the document the run wrote
SpecImagePushed ==
    /\ gen.calls # <<>>
    /\ gen.calls[Len(gen.calls)] = BackendCall("Push", REPOSITORY_SPECFILE,
                                               gen.calls[Len(gen.calls)].available)
    /\ registry[REPOSITORY_SPECFILE] = gen.repospec

\* C22, as stated: the post-build notification is published only after the
\* spec document image has been pushed successfully.
C22_PostBuildAfterSpecPush == Notified(PostBuild) => SpecImagePushed

C22_NotificationsInPlace ==
    /\ gen.events \in {<<>>, <<PreBuild>>, <<PreBuild, PostBuild>>}
    /\ Notified(PreBuild) =>
          /\ gen.pc \in AfterBump \cup {"done"}
          /\ desc.last_update = FormatInt(now)
          /\ desc.revision = 1 + (IF gen.resetRevision THEN 0
                                  ELSE Base(gen.published0, gen.revision0))
    /\ ~Notified(PreBuild) =>
          /\ gen.calls = <<>>
          /\ gen.pc # "idle" => registry[REPOSITORY_SPECFILE] = gen.published0
          /\ Returned => gen.err \in ErrorsBeforeBump
    /\ gen.pc \in AfterBump => Notified(PreBuild)
    /\ Notified(PostBuild) =>
          /\ ReturnedNil
          /\ gen.calls[Len(gen.calls)].id = REPOSITORY_SPECFILE
          /\ desc.pushImages => SpecImagePushed
          /\ ~desc.pushImages =>
                /\ gen.calls[Len(gen.calls)].op = "GenerateFinalImage"
                /\ registry[REPOSITORY_SPECFILE] = gen.published0
    /\ ReturnedNil => Notified(PostBuild)
    /\ (Returned /\ gen.err # "") => ~Notified(PostBuild)
    /\ (Returned /\ gen.err \in ErrorsBeforeBump) => gen.events = <<>>

\* a step that ends with the pre-build notification not published has
\* archived nothing and pushed nothing
C22_NothingArchivedBeforePreBuild ==
    ~Notified(PreBuild)' =>
        /\ desc'.repo_files = desc.repo_files
        /\ registry' = registry

\* C22, amended: the pre-build notification is published after the revision
\* bump and the timestamp, before any bundle is archived or pushed; the
\* post-build notification only after pushRepoMetadata returned nil, which
\* is after the push of the spec image when the descriptor pushes its
\* images and after its build alone, the registry untouched, when it does
\* not; never by a Generate that returns an error; a Generate that fails
\* before the bump publishes neither.
C22_NotificationOrder ==
    [](C22_NotificationsInPlace) /\ [][C22_NothingArchivedBeforePreBuild]_vars

\* a descriptor that does not push its images published both
\* notifications: four images built, none pushed
C22_Witness ==
    /\ ReturnedNil /\ ~desc.pushImages
    /\ gen.events = <<PreBuild, PostBuild>>
    /\ Len(gen.calls) = 4
    /\ \A i \in 1..4 : gen.calls[i].op = "GenerateFinalImage"
    /\ HasSpec(gen.published0)
    /\ registry[REPOSITORY_SPECFILE] = gen.published0
    /\ gen.repospec # gen.published0

(***************************************************************************)
(* Claims about the CreatePackage calls of SyncDatabase.                   *)
(***************************************************************************)
\* the fingerprints some repository of the collection defines
Present == UNION {repos[i].db : i \in 1..Len(repos)}

\* C23: SyncDatabase calls CreatePackage once for every fingerprint
\* present in some repository and never twice for the same fingerprint.
C23_CreatePackageOncePerFingerprint ==
    aggOp = "SyncDatabase" =>
        /\ {aggRes[i].fp : i \in 1..Len(aggRes)} = Present
        /\ \A i, j \in 1..Len(aggRes) : aggRes[i].fp = aggRes[j].fp => i = j
        /\ \A i \in 1..Len(aggRes) :
              \E k \in 1..Len(repos) : aggRes[i] \in DbWorld(repos[k])

\* SyncDatabase ran over a collection in which every repository defines
\* every fingerprint
C23_Witness ==
    /\ aggOp = "SyncDatabase"
    /\ Len(repos) = MaxRepos
    /\ \A i \in 1..Len(repos) : repos[i].db = FingerPrints
    /\ Len(aggRes) = Cardinality(FingerPrints)

(***************************************************************************)
(* Claims about SearchPackages over a collection.                          *)
(***************************************************************************)
RepoById(id) == CHOOSE r \in {repos[i] : i \in 1..Len(repos)} : r.id = id

\* the packages one repository matches, none when its lookup fails
Hits(r) ==
    LET found == RepoMatches(r, search.arg, search.mode)
    IN  IF found.err = "" THEN found.matches ELSE <<>>

\* every hit of every repository is in the result, as often as the
\* repository's lookup reported it, and the result holds nothing else
EveryRepositoryHit ==
    \A i \in 1..Len(repos), n \in PackageNames :
        Cardinality({k \in 1..Len(search.res) :
                        search.res[k].repo = repos[i].id /\ search.res[k].package = n})
          = Cardinality({k \in 1..Len(Hits(repos[i])) : Hits(repos[i])[k] = n})

\* a hit carries an artifact of its package out of its repository's index
\* when the index has one, and none otherwise
PairedWithArtifact ==
    \A k \in 1..Len(search.res) :
        LET m == search.res[k]
            idx == RepoById(m.repo).index
        IN  IF \E j \in 1..Len(idx) : idx[j].pkg = m.package
            THEN m.artifact.pkg = m.package /\ \E j \in 1..Len(idx) : idx[j] = m.artifact
            ELSE m.artifact = NoArtifact

\* in file-search mode the artifact of a hit has a file the pattern matches
FileHitHasMatchingArtifact ==
    search.mode = FileSearchMode =>
        \A k \in 1..Len(search.res) :
            /\ search.res[k].artifact # NoArtifact
            /\ FilesMatch(search.arg, search.res[k].artifact.files, 1)

\* C24: SearchPackages returns, in each mode, the hits of every repository
\* of the collection, each with its repository and with the matching
\* artifact when there is one; in file-search mode that artifact is the
\* one whose file list matched the pattern.
C24_EveryRepositoryWithMatchingArtifact ==
    search.op = "SearchPackagesAll" =>
        /\ EveryRepositoryHit
        /\ PairedWithArtifact
        /\ FileHitHasMatchingArtifact

(***************************************************************************)
(* Claims about failures reported to the caller.                           *)
(***************************************************************************)
\* a lookup of the search in progress failed in some repository
LookupFailed ==
    /\ search.op = "SearchPackagesAll"
    /\ \E i \in 1..Len(repos) : RepoMatches(repos[i], search.arg, search.mode).err # ""

\* what the caller of SearchPackages can see of a failure: the method
\* returns []PackageMatch and nothing else
SearchErrorReturned == search.op # "SearchPackagesAll"

\* the call read a cached spec document that exists and cannot be loaded
CachedSpecUnreadable(s) ==
    /\ local.cached /\ ~s.force
    /\ s.repo # NoRepo
    /\ s.cache0.spec # NoDoc
    /\ ReadSpecFile(s.cache0.spec) = NoRepo

C25_SyncFailureReturned ==
    \A p \in Procs :
        (sync[p].pc = "done" /\ CachedSpecUnreadable(sync[p])) => sync[p].err # ""

\* C25: apart from the pruning of Initialize and search misses, a failing
\* step is returned to the caller as an error: a lookup of SearchPackages
\* that fails (an invalid regular expression), and the reading of the
\* cached spec document in Sync.
C25_NoFailureSwallowed ==
    /\ LookupFailed => SearchErrorReturned
    /\ C25_SyncFailureReturned

(***************************************************************************)
(* Claims about the index Initialize returns.                              *)
(***************************************************************************)
\* the files of a walk up to position n that are sidecar files of a package
\* of the tree, in walk order
KeptFiles(n) ==
    SelectSeq(SubSeq(ini.files, 1, n), LAMBDA f : IsSidecar(f) /\ f \in ini.db)

Walked == Len(ini.files) - Len(ini.todo)

\* C26: the index Initialize returns holds exactly the artifacts of the
\* *.metadata.yaml files whose package is in the tree database; an
\* artifact whose package is absent is skipped without an error, neither
\* built nor pushed nor indexed, and other files are ignored.
C26_IndexIsSidecarsInTree ==
    /\ (ini.pc = "done" /\ ini.err = "" /\ ini.type = DockerRepositoryType) =>
          /\ ini.index = KeptFiles(Len(ini.files))
          /\ ini.art = ini.index
    /\ ini.pc = "walk" => ini.art = KeptFiles(Walked)
    /\ \A i \in 1..Len(ini.calls) :
          IsSidecar(ini.calls[i].id) /\ ini.calls[i].id \in ini.db
    /\ ini.err \in {"Failed generating metadata tree", "Failed while pushing image"} =>
          ini.files[Len(ini.files) - Len(ini.todo) + 1] \in ini.db

\* Initialize walked a file that is no sidecar file, the sidecar file of a
\* package absent from the tree and the sidecar file of a package of the
\* tree, and returned the last alone
C26_Witness ==
    /\ ini.pc = "done" /\ ini.err = ""
    /\ Len(ini.files) = 3 /\ Len(ini.index) = 1
    /\ \E i \in 1..3 : ~IsSidecar(ini.files[i])
    /\ \E i \in 1..3 : IsSidecar(ini.files[i]) /\ ini.files[i] \notin ini.db
    /\ ini.calls # <<>>

(***************************************************************************)
(* Claims about the cache between Sync calls.                              *)
(***************************************************************************)
BetweenCalls == \A p \in Procs : sync[p].pc \in {"idle", "done"}

\* the cached directories hold the whole bundles the cached spec document
\* declares
CacheMatchesCachedSpec ==
    ReadSpecFile(cacheDir.spec) # NoRepo =>
        /\ Hash(cacheDir.treefs) = cacheDir.spec.repo_files[REPOFILE_TREE_KEY].checksums
        /\ Hash(cacheDir.metafs) = cacheDir.spec.repo_files[REPOFILE_META_KEY].checksums

\* C27: between Sync calls on a cached repository, whatever calls failed,
\* the cached tree and metadata directories are the verified, fully
\* unpacked bundles of the publish the cached spec document names; so a
\* Sync that finds the cache up to date returns a descriptor, and a Sync
\* that failed after replacing the cache is repaired by the next one.
C27_CacheMatchesItsSpec ==
    (local.cached /\ BetweenCalls) =>
        /\ CacheMatchesCachedSpec
        /\ \A p \in Procs :
              (sync[p].pc = "done" /\ sync[p].repoUpdated) =>
                  /\ sync[p].err = ""
                  /\ sync[p].result # NoRepo

(***************************************************************************)
(* Claims about the images tagged in the registry.                         *)
(***************************************************************************)
\* the image tagged with the file name the spec image declares for a key
ImageOf(k) ==
    LET tag == registry[REPOSITORY_SPECFILE].repo_files[k].filename
    IN  IF tag \in DOMAIN registry THEN registry[tag] ELSE NoImage

\* the spec image, when it is one Sync accepts, declares the checksums of
\* the tree and metadata images tagged under the names it declares
RegistryConsistent ==
    ReadSpecFile(registry[REPOSITORY_SPECFILE]) # NoRepo =>
        \A k \in ManifestKeys :
            Verify(ImageOf(k), registry[REPOSITORY_SPECFILE].repo_files[k].checksums)

\* C28: in a registry that Generate calls filled from empty, at every point
\* during a call and after a call that failed part-way, the spec image
\* declares the checksums of the tree and metadata images tagged in the
\* registry.
C28_PublishedStateConsistent == ~HasSpec(hist.published0) => RegistryConsistent

(***************************************************************************)
(* Claims about the descriptor after a Generate that returned an error.    *)
(***************************************************************************)
Failed == gen.pc = "done" /\ gen.err # ""

\* the step on which a call fails
FailingStep == gen.pc # "done" /\ gen'.pc = "done" /\ gen'.err # ""

C29_RevisionAsBefore == Failed => desc.revision = gen.revision0

C29_FailingStepKeepsDescriptor ==
    FailingStep => /\ desc'.last_update = desc.last_update
                   /\ desc'.repo_files = desc.repo_files

\* C29, as stated: a Generate that returns an error leaves the descriptor's
\* revision at its value before the call, and the step on which it fails
\* changes neither last_update nor the repository-file manifest.
C29_FailedCallLeavesDescriptor ==
    [](C29_RevisionAsBefore) /\ [][C29_FailingStepKeepsDescriptor]_vars

\* the revision a call works at once BumpRevision has returned nil
RevisionAfterBump ==
    IF gen.resetRevision THEN 1
    ELSE IF HasSpec(gen.published0) THEN gen.published0.revision + 1
    ELSE gen.revision0 + 1

C29_FailedCallState ==
    /\ (gen.pc # "idle" /\ gen.err # "invalid repository type")
          => desc.last_update = FormatInt(now)
    /\ (Failed /\ gen.err \in ErrorsBeforeBump) => desc.revision = gen.revision0
    /\ (Failed /\ gen.err \notin ErrorsBeforeBump) => desc.revision = RevisionAfterBump

C29_EarlyFailureKeepsManifest ==
    (FailingStep /\ gen'.err \in ErrorsBeforeBump) =>
        /\ desc'.revision = desc.revision
        /\ desc'.repo_files = desc.repo_files

\* C29, amended: Generate changes the descriptor in place.  Every call
\* leaves last_update at the time of the call; a call that fails before
\* BumpRevision returns nil leaves the revision and the manifest as they
\* were; a call that fails later leaves the bumped revision (1 after a
\* reset, the published revision + 1, or the revision before the call + 1
\* when no spec image is found).
C29_FailedCallKeepsItsChanges ==
    [](C29_FailedCallState) /\ [][C29_EarlyFailureKeepsManifest]_vars

\* a call failed in AddRepositoryFile with the revision bumped and the
\* default manifest entry set
C29_Witness ==
    /\ Failed
    /\ gen.err = "Error met while adding archive to repository"
    /\ desc.revision = gen.revision0 + 1
    /\ REPOFILE_TREE_KEY \in DOMAIN desc.repo_files
    /\ desc.last_update = FormatInt(now)

(***************************************************************************)
(* Claims about the (revision, last_update) pair of a publish.             *)
(***************************************************************************)
\* the checksums a spec document declares for the tree and the metadata
DeclaredChecksums(doc) == [k \in ManifestKeys |-> doc.repo_files[k].checksums]

\* a Generate that pushes its images returned nil over a spec image that
\* Sync accepts
Republished ==
    /\ ReturnedNil /\ desc.pushImages
    /\ ReadSpecFile(gen.published0) # NoRepo
    /\ ReadSpecFile(registry[REPOSITORY_SPECFILE]) # NoRepo

\* C30: a publish that Sync(force=false), holding the cache of the publish
\* before it, takes as up to date (same revision and last_update) declares
\* the tree and metadata of the publish before it: two publishes of
\* different content never carry the same (revision, last_update) pair.
C30_SamePairSameContent ==
    (Republished /\ UpToDate(ReadSpecFile(gen.published0),
                             ReadSpecFile(registry[REPOSITORY_SPECFILE])))
        => DeclaredChecksums(registry[REPOSITORY_SPECFILE]) = DeclaredChecksums(gen.published0)

====
